---- MODULE Spec2Model ----
(***************************************************************************)
(* Model of backend/app/core/merkle.py: the Merkle tree that aggregates    *)
(* compliance evidence (MerkleNode, MerkleProof, MerkleTree).              *)
(*                                                                         *)
(* Strings.  A Python str is modelled as a sequence of tokens.  A token is *)
(* a record [c, p]: an ordinary character has code c >= 1 and p = <<>>; a  *)
(* SHA-256 hex digest is one token with c = 0 whose p is the string that   *)
(* was hashed (the 64 hex characters are kept as one block).  str + str is *)
(* sequence concatenation, so concatenating two digests gives a two-token  *)
(* string, and hashing is an injective constructor: sha256 has no          *)
(* collisions in the model, and a raw value can be the concatenation of    *)
(* two digests.                                                            *)
(*                                                                         *)
(* Optional values: None is <<>> and a present value x is <<x>>.           *)
(* Python lists that are shared by reference (leaves, leaf_hashes) live in *)
(* heap, and a tree holds their identities.                                *)
(*                                                                         *)
(* Every method is an operator from the tree record and the heap to a      *)
(* result record: tree (the tree after the call), ret (the returned value, *)
(* None when the method returns None or raises), exc (the exception        *)
(* raised, "" for a normal return) and built (whether the call ran the     *)
(* body of build_tree).                                                    *)
(***************************************************************************)
EXTENDS Integers, Sequences, FiniteSets, TLC

VARIABLES heap, trees, last

vars == <<heap, trees, last>>

(***************************************************************************)
(* Bounds of the model.                                                    *)
(***************************************************************************)
MaxLeaves == 5

MaxLeavesTwo == 3

(***************************************************************************)
(* Strings and hashing.                                                    *)
(***************************************************************************)
None == <<>>

Some(x) == <<x>>

Chr(n) == [c |-> n, p |-> <<>>]

EmptyStr == <<>>

StrA == <<Chr(1)>>

StrB == <<Chr(2)>>

\* hashlib.sha256(data.encode()).hexdigest()
sha256_hexdigest(data) == <<[c |-> 0, p |-> data]>>

\* MerkleTree._hash_data
hash_data(data) == sha256_hexdigest(data)

StrC == <<Chr(3)>>

\* The raw leaf values callers add.
Data == {EmptyStr, StrA}

\* A value that is never added to any tree.
StrMissing == <<Chr(4)>>

(***************************************************************************)
(* MerkleNode, MerkleProof, and the dict that caches the levels.           *)
(***************************************************************************)
MerkleNode(hash, left, right, data) ==
    [hash |-> hash, left |-> left, right |-> right, data |-> data]

MerkleProof(leaf_hash, leaf_index, proof_hashes, proof_directions, root_hash) ==
    [leaf_hash |-> leaf_hash, leaf_index |-> leaf_index,
     proof_hashes |-> proof_hashes, proof_directions |-> proof_directions,
     root_hash |-> root_hash]

EmptyDict == [k \in {} |-> <<>>]

\* d[k] = v
DictSet(d, k, v) == (k :> v) @@ d

DictLen(d) == Cardinality(DOMAIN d)

\* seq[i] with Python's 0-based index
At(seq, i) == seq[i + 1]

Min(a, b) == IF a <= b THEN a ELSE b

\* MerkleTree.__init__ : the two lists are fresh objects of the heap
NewTree(leavesId, hashesId) ==
    [leaves |-> leavesId, leaf_hashes |-> hashesId,
     root |-> None, tree_cache |-> EmptyDict]

(***************************************************************************)
(* MerkleProof.verify                                                      *)
(***************************************************************************)
RECURSIVE verify_loop(_, _, _)
verify_loop(proof, i, current_hash) ==
    IF i > Len(proof.proof_hashes)
    THEN [ret |-> current_hash, exc |-> ""]
    ELSE IF i > Len(proof.proof_directions)
    THEN [ret |-> current_hash, exc |-> "IndexError"]
    ELSE verify_loop(proof, i + 1,
                     sha256_hexdigest(IF proof.proof_directions[i] = "left"
                                      THEN proof.proof_hashes[i] \o current_hash
                                      ELSE current_hash \o proof.proof_hashes[i]))

\* variant: any non-empty final hash counts as verified
verify_return_truthy(proof, r) ==
    IF r.exc # ""
    THEN [ret |-> None, exc |-> r.exc]
    ELSE [ret |-> Some(r.ret # EmptyStr), exc |-> ""]

\* return current_hash == self.root_hash
verify_return(proof, r) ==
    IF r.exc # ""
    THEN [ret |-> None, exc |-> r.exc]
    ELSE [ret |-> Some(r.ret = proof.root_hash), exc |-> ""]

verify(proof) == verify_return(proof, verify_loop(proof, 1, proof.leaf_hash))

(***************************************************************************)
(* MerkleTree.build_tree                                                   *)
(***************************************************************************)
\* variant: the parent of an unpaired node keeps one child reference
parent_node_one_child(left_node, right_node) ==
    MerkleNode(hash_data(left_node.hash \o right_node.hash),
               Some(left_node),
               IF left_node = right_node THEN None ELSE Some(right_node), None)

\* the parent of a pair of nodes
parent_node(left_node, right_node) ==
    MerkleNode(hash_data(left_node.hash \o right_node.hash),
               Some(left_node), Some(right_node), None)

\* variant: an unpaired last node is promoted unchanged
RECURSIVE pair_nodes_promote(_, _, _)
pair_nodes_promote(current_level, i, next_level) ==
    IF i >= Len(current_level)
    THEN next_level
    ELSE pair_nodes_promote(current_level, i + 2,
                            Append(next_level,
                                   IF i + 1 < Len(current_level)
                                   THEN MerkleNode(hash_data(At(current_level, i).hash
                                                             \o At(current_level, i + 1).hash),
                                                   Some(At(current_level, i)),
                                                   Some(At(current_level, i + 1)), None)
                                   ELSE At(current_level, i)))

\* the for loop over range(0, len(current_level), 2): i is the 0-based position
RECURSIVE pair_nodes(_, _, _)
pair_nodes(current_level, i, next_level) ==
    IF i >= Len(current_level)
    THEN next_level
    ELSE pair_nodes(current_level, i + 2,
                    Append(next_level,
                           parent_node(At(current_level, i),
                                       IF i + 1 < Len(current_level)
                                       THEN At(current_level, i + 1)
                                       ELSE At(current_level, i))))

\* the while loop: returns the cache and the last level
RECURSIVE build_levels(_, _, _)
RECURSIVE cache_level(_, _, _)
build_levels(current_level, level_index, cache) ==
    IF Len(current_level) > 1
    THEN cache_level(pair_nodes(current_level, 0, <<>>), level_index + 1, cache)
    ELSE [cache |-> cache, level |-> current_level]

\* self._tree_cache[level_index] = next_level.copy(); current_level = next_level
cache_level(next_level, level_index, cache) ==
    build_levels(next_level, level_index, DictSet(cache, level_index, next_level))

\* [MerkleNode(hash=leaf_hash, data=data) for leaf_hash, data in zip(...)]
RECURSIVE leaf_nodes(_, _, _, _)
leaf_nodes(leaf_hashes, leaves, j, nodes) ==
    IF j > Min(Len(leaf_hashes), Len(leaves))
    THEN nodes
    ELSE leaf_nodes(leaf_hashes, leaves, j + 1,
                    Append(nodes, MerkleNode(leaf_hashes[j], None, None, Some(leaves[j]))))

\* variant: the root hash is returned but self.root is not assigned
build_return_unassigned(tr, b) ==
    IF Len(b.level) = 0
    THEN [tree |-> [tr EXCEPT !.tree_cache = b.cache],
          ret |-> None, exc |-> "IndexError", built |-> TRUE]
    ELSE [tree |-> [tr EXCEPT !.tree_cache = b.cache],
          ret |-> Some(b.level[1].hash), exc |-> "", built |-> TRUE]

\* self.root = current_level[0]; return self.root.hash
build_return(tr, b) ==
    IF Len(b.level) = 0
    THEN [tree |-> [tr EXCEPT !.tree_cache = b.cache],
          ret |-> None, exc |-> "IndexError", built |-> TRUE]
    ELSE [tree |-> [tr EXCEPT !.tree_cache = b.cache, !.root = Some(b.level[1])],
          ret |-> Some(b.level[1].hash), exc |-> "", built |-> TRUE]

\* the bottom-up construction from the level of the leaves
build_from(tr, current_level) ==
    build_return(tr, build_levels(current_level, 0,
                                  DictSet(tr.tree_cache, 0, current_level)))

\* variant: the root of the empty tree is the empty string
build_tree_of_empty_root(tr, leaf_hashes, leaves) ==
    IF Len(leaf_hashes) = 0
    THEN [tree |-> [tr EXCEPT !.root = Some(MerkleNode(EmptyStr, None, None, None))],
          ret |-> Some(EmptyStr), exc |-> "", built |-> TRUE]
    ELSE IF Len(leaf_hashes) = 1
    THEN [tree |-> [tr EXCEPT !.root =
                       Some(MerkleNode(leaf_hashes[1], None, None, Some(leaves[1])))],
          ret |-> Some(leaf_hashes[1]), exc |-> "", built |-> TRUE]
    ELSE build_from(tr, leaf_nodes(leaf_hashes, leaves, 1, <<>>))

build_tree_of(tr, leaf_hashes, leaves) ==
    IF Len(leaf_hashes) = 0
    THEN [tree |-> [tr EXCEPT !.root =
                       Some(MerkleNode(hash_data(EmptyStr), None, None, None))],
          ret |-> Some(hash_data(EmptyStr)), exc |-> "", built |-> TRUE]
    ELSE IF Len(leaf_hashes) = 1
    THEN IF Len(leaves) = 0
         THEN [tree |-> tr, ret |-> None, exc |-> "IndexError", built |-> TRUE]
         ELSE [tree |-> [tr EXCEPT !.root =
                            Some(MerkleNode(leaf_hashes[1], None, None, Some(leaves[1])))],
               ret |-> Some(leaf_hashes[1]), exc |-> "", built |-> TRUE]
    ELSE build_from(tr, leaf_nodes(leaf_hashes, leaves, 1, <<>>))

\* variant: the leaves are put in sorted order before the tree is built
StrKey(x) == IF Len(x) = 0 THEN 0 ELSE x[1].c

RECURSIVE InsertSorted(_, _)
InsertSorted(sorted, x) ==
    IF Len(sorted) = 0 THEN <<x>>
    ELSE IF StrKey(x) <= StrKey(Head(sorted)) THEN <<x>> \o sorted
    ELSE <<Head(sorted)>> \o InsertSorted(Tail(sorted), x)

RECURSIVE SortStrs(_)
SortStrs(seq) ==
    IF Len(seq) = 0 THEN <<>> ELSE InsertSorted(SortStrs(Tail(seq)), Head(seq))

RECURSIVE HashAll(_)
HashAll(seq) ==
    IF Len(seq) = 0 THEN <<>> ELSE <<hash_data(Head(seq))[1]>> \o HashAll(Tail(seq))

RECURSIVE Singletons(_)
Singletons(seq) ==
    IF Len(seq) = 0 THEN <<>> ELSE <<<<Head(seq)>>>> \o Singletons(Tail(seq))

build_tree_sorted(tr, hp) ==
    build_tree_of(tr, Singletons(HashAll(SortStrs(hp[tr.leaves]))), SortStrs(hp[tr.leaves]))

build_tree(tr, hp) == build_tree_of(tr, hp[tr.leaf_hashes], hp[tr.leaves])

(***************************************************************************)
(* MerkleTree.get_root                                                     *)
(***************************************************************************)
\* variant: the cached root is ignored and the tree is rebuilt on every call
get_root_rebuilds(tr, hp) == build_tree(tr, hp)

get_root(tr, hp) ==
    IF tr.root = None
    THEN build_tree(tr, hp)
    ELSE [tree |-> tr, ret |-> Some(tr.root[1].hash), exc |-> "", built |-> FALSE]

(***************************************************************************)
(* MerkleTree.add_leaf                                                     *)
(***************************************************************************)
\* variant: the cached root survives the append
add_leaf_keeps_root(tr, hp, data) ==
    [tree |-> [tr EXCEPT !.tree_cache = EmptyDict],
     heap |-> [[hp EXCEPT ![tr.leaves] = Append(@, data)]
                  EXCEPT ![tr.leaf_hashes] = Append(@, hash_data(data))],
     ret |-> Some(hash_data(data)), exc |-> "", built |-> FALSE]

\* variant: the level cache survives the append
add_leaf_keeps_cache(tr, hp, data) ==
    [tree |-> [tr EXCEPT !.root = None],
     heap |-> [[hp EXCEPT ![tr.leaves] = Append(@, data)]
                  EXCEPT ![tr.leaf_hashes] = Append(@, hash_data(data))],
     ret |-> Some(hash_data(data)), exc |-> "", built |-> FALSE]

\* variant: nothing is invalidated by the append
add_leaf_no_invalidate(tr, hp, data) ==
    [tree |-> tr,
     heap |-> [[hp EXCEPT ![tr.leaves] = Append(@, data)]
                  EXCEPT ![tr.leaf_hashes] = Append(@, hash_data(data))],
     ret |-> Some(hash_data(data)), exc |-> "", built |-> FALSE]

\* self.leaves.append(data); self.leaf_hashes.append(leaf_hash)
append_leaf(tr, hp, data, leaf_hash) ==
    [[hp EXCEPT ![tr.leaves] = Append(@, data)]
        EXCEPT ![tr.leaf_hashes] = Append(@, leaf_hash)]

add_leaf(tr, hp, data) ==
    [tree |-> [tr EXCEPT !.tree_cache = EmptyDict, !.root = None],
     heap |-> append_leaf(tr, hp, data, hash_data(data)),
     ret |-> Some(hash_data(data)), exc |-> "", built |-> FALSE]

(***************************************************************************)
(* MerkleTree.get_proof_by_index and MerkleTree.get_proof                  *)
(***************************************************************************)
\* variant: a missing sibling is padded with the hash of the empty string
sibling_hash_padded(level_nodes, current_index, sibling_index) ==
    IF sibling_index < Len(level_nodes)
    THEN At(level_nodes, sibling_index).hash
    ELSE hash_data(EmptyStr)

\* variant: a missing sibling is replaced by the first node of the level
sibling_hash_first(level_nodes, current_index, sibling_index) ==
    IF sibling_index < Len(level_nodes)
    THEN At(level_nodes, sibling_index).hash
    ELSE At(level_nodes, 0).hash

\* the sibling's hash at one level, or the node's own hash past the end
sibling_hash(level_nodes, current_index, sibling_index) ==
    IF sibling_index < Len(level_nodes)
    THEN At(level_nodes, sibling_index).hash
    ELSE At(level_nodes, current_index).hash

\* the for loop over the cached levels below the root
RECURSIVE proof_walk(_, _, _, _, _)
proof_walk(cache, level, current_index, proof_hashes, proof_directions) ==
    IF level >= DictLen(cache) - 1
    THEN [hashes |-> proof_hashes, dirs |-> proof_directions, exc |-> ""]
    ELSE IF level \notin DOMAIN cache
    THEN [hashes |-> proof_hashes, dirs |-> proof_directions, exc |-> "KeyError"]
    ELSE IF current_index >= Len(cache[level])
            /\ (IF current_index % 2 = 0 THEN current_index + 1
                                         ELSE current_index - 1) >= Len(cache[level])
    THEN [hashes |-> proof_hashes, dirs |-> proof_directions, exc |-> "IndexError"]
    ELSE proof_walk(cache, level + 1, current_index \div 2,
                    Append(proof_hashes,
                           sibling_hash(cache[level], current_index,
                                        IF current_index % 2 = 0
                                        THEN current_index + 1
                                        ELSE current_index - 1)),
                    Append(proof_directions,
                           IF current_index % 2 = 0 THEN "right" ELSE "left"))

\* return MerkleProof(...) after the walk
proof_return(leaf_hashes, leaf_index, r, w) ==
    IF w.exc # ""
    THEN [tree |-> r.tree, ret |-> None, exc |-> w.exc, built |-> r.built]
    ELSE [tree |-> r.tree,
          ret |-> Some(MerkleProof(At(leaf_hashes, leaf_index), leaf_index,
                                   w.hashes, w.dirs, r.ret[1])),
          exc |-> "", built |-> r.built]

\* the body of get_proof_by_index after root_hash = self.get_root()
proof_for(leaf_hashes, leaf_index, r) ==
    IF r.exc # ""
    THEN [tree |-> r.tree, ret |-> None, exc |-> r.exc, built |-> r.built]
    ELSE IF Len(leaf_hashes) = 1
    THEN [tree |-> r.tree,
          ret |-> Some(MerkleProof(leaf_hashes[1], 0, <<>>, <<>>, r.ret[1])),
          exc |-> "", built |-> r.built]
    ELSE proof_return(leaf_hashes, leaf_index, r,
                      proof_walk(r.tree.tree_cache, 0, leaf_index, <<>>, <<>>))

\* variant: the tree is built before the index is checked
get_proof_by_index_builds_first(tr, hp, leaf_index) ==
    IF leaf_index < 0 \/ leaf_index >= Len(hp[tr.leaf_hashes])
    THEN [tree |-> get_root(tr, hp).tree, ret |-> None, exc |-> "", built |-> TRUE]
    ELSE proof_for(hp[tr.leaf_hashes], leaf_index, get_root(tr, hp))

get_proof_by_index(tr, hp, leaf_index) ==
    IF leaf_index < 0 \/ leaf_index >= Len(hp[tr.leaf_hashes])
    THEN [tree |-> tr, ret |-> None, exc |-> "", built |-> FALSE]
    ELSE proof_for(hp[tr.leaf_hashes], leaf_index, get_root(tr, hp))

\* variant: the last position holding the value
ListIndex_last(seq, x) ==
    IF \E j \in 1..Len(seq) : seq[j] = x
    THEN (CHOOSE j \in 1..Len(seq) : seq[j] = x /\ \A k \in (j + 1)..Len(seq) : seq[k] # x) - 1
    ELSE -1

\* list.index: the first position holding the value, 0-based; -1 stands for ValueError
ListIndex(seq, x) ==
    IF \E j \in 1..Len(seq) : seq[j] = x
    THEN (CHOOSE j \in 1..Len(seq) : seq[j] = x /\ \A k \in 1..(j - 1) : seq[k] # x) - 1
    ELSE -1

get_proof(tr, hp, leaf_data) ==
    IF ListIndex(hp[tr.leaves], leaf_data) = -1
    THEN [tree |-> tr, ret |-> None, exc |-> "", built |-> FALSE]
    ELSE get_proof_by_index(tr, hp, ListIndex(hp[tr.leaves], leaf_data))

(***************************************************************************)
(* MerkleTree.verify_proof                                                 *)
(***************************************************************************)
\* proof.verify() once the roots are equal
verify_checked(r, v) ==
    [tree |-> r.tree, ret |-> v.ret, exc |-> v.exc, built |-> r.built]

\* variant: the proof's root is not compared with the tree's root
verify_against_any_root(proof, r) ==
    IF r.exc # ""
    THEN [tree |-> r.tree, ret |-> None, exc |-> r.exc, built |-> r.built]
    ELSE verify_checked(r, verify(proof))

\* return proof.root_hash == expected_root and proof.verify()
verify_against(proof, r) ==
    IF r.exc # ""
    THEN [tree |-> r.tree, ret |-> None, exc |-> r.exc, built |-> r.built]
    ELSE IF proof.root_hash # r.ret[1]
    THEN [tree |-> r.tree, ret |-> Some(FALSE), exc |-> "", built |-> r.built]
    ELSE verify_checked(r, verify(proof))

verify_proof(tr, hp, proof) == verify_against(proof, get_root(tr, hp))

(***************************************************************************)
(* MerkleTree.get_tree_info, serialize, export_proofs                      *)
(***************************************************************************)
\* tree_height is read before get_root() runs
tree_height(tr, hp) ==
    IF DictLen(tr.tree_cache) # 0
    THEN DictLen(tr.tree_cache)
    ELSE IF Len(hp[tr.leaf_hashes]) # 0 THEN 1 ELSE 0

info_return(total_leaves, height, r) ==
    IF r.exc # ""
    THEN [tree |-> r.tree, ret |-> None, exc |-> r.exc, built |-> r.built]
    ELSE [tree |-> r.tree,
          ret |-> Some([total_leaves |-> total_leaves,
                        tree_height |-> height,
                        root_hash |-> r.ret[1],
                        is_built |-> r.tree.root # None]),
          exc |-> "", built |-> r.built]

get_tree_info(tr, hp) ==
    info_return(Len(hp[tr.leaf_hashes]), tree_height(tr, hp), get_root(tr, hp))

\* the exported lists are the tree's own list objects
serialize_return(tr, r, i) ==
    IF i.exc # ""
    THEN [tree |-> i.tree, ret |-> None, exc |-> i.exc, built |-> r.built \/ i.built]
    ELSE [tree |-> i.tree,
          ret |-> Some([leaves |-> tr.leaves,
                        leaf_hashes |-> tr.leaf_hashes,
                        root_hash |-> r.ret[1],
                        tree_info |-> i.ret[1]]),
          exc |-> "", built |-> r.built \/ i.built]

\* "root_hash": self.get_root() is evaluated before "tree_info": self.get_tree_info()
serialize_with(tr, hp, r) ==
    IF r.exc # ""
    THEN [tree |-> r.tree, ret |-> None, exc |-> r.exc, built |-> r.built]
    ELSE serialize_return(tr, r, get_tree_info(r.tree, hp))

serialize(tr, hp) == serialize_with(tr, hp, get_root(tr, hp))

RECURSIVE export_loop(_, _, _, _, _)
RECURSIVE export_step(_, _, _, _, _, _)
export_loop(tr, hp, i, proofs, built) ==
    IF i >= Len(hp[tr.leaves])
    THEN [tree |-> tr, ret |-> Some(proofs), exc |-> "", built |-> built]
    ELSE export_step(tr, hp, i, proofs, built, get_proof_by_index(tr, hp, i))

\* if proof: proofs.append({"leaf_data": ..., "proof": proof.to_dict()})
export_step(tr, hp, i, proofs, built, r) ==
    IF r.exc # ""
    THEN [tree |-> r.tree, ret |-> None, exc |-> r.exc, built |-> built \/ r.built]
    ELSE export_loop(r.tree, hp, i + 1,
                     IF r.ret # None
                     THEN Append(proofs, [leaf_data |-> At(hp[tr.leaves], i),
                                          proof |-> r.ret[1]])
                     ELSE proofs,
                     built \/ r.built)

export_proofs(tr, hp) == export_loop(tr, hp, 0, <<>>, FALSE)

(***************************************************************************)
(* The state machine.  trees maps each tree instance to its fields, heap   *)
(* maps each list object to its contents, and last records the latest      *)
(* call: the method, the instance, the arguments and the result.           *)
(***************************************************************************)
TreeIds == DOMAIN trees

Leaves(t) == heap[trees[t].leaves]

LeafHashes(t) == heap[trees[t].leaf_hashes]

NoCall ==
    [op |-> "init", t |-> 0, data |-> None, index |-> None, proof |-> None,
     ret |-> None, exc |-> "", built |-> FALSE]

Call(op, t, data, index, proof, r) ==
    [op |-> op, t |-> t, data |-> data, index |-> index, proof |-> proof,
     ret |-> r.ret, exc |-> r.exc, built |-> r.built]

\* for evidence_hash in evidence_hashes: tree.add_leaf(evidence_hash)
RECURSIVE Feed(_, _)
Feed(r, seq) ==
    IF seq = <<>>
    THEN r
    ELSE Feed(add_leaf(r.tree, r.heap, Head(seq)), Tail(seq))

\* create_evidence_tree: a new tree, one add_leaf per hash, then build_tree
create_evidence_tree(evidence_hashes) ==
    [tree |-> build_tree(Feed([tree |-> NewTree(1, 2), heap |-> <<<<>>, <<>>>>],
                              evidence_hashes).tree,
                         Feed([tree |-> NewTree(1, 2), heap |-> <<<<>>, <<>>>>],
                              evidence_hashes).heap).tree,
     heap |-> Feed([tree |-> NewTree(1, 2), heap |-> <<<<>>, <<>>>>],
                   evidence_hashes).heap]

ProofsOf(f, n) == { get_proof_by_index(f.tree, f.heap, i).ret[1] : i \in 0..(n - 1) }

\* the proofs a caller can hold: those some tree instance returned for one of
\* its leaves now or at an earlier leaf count
IssuedProofs ==
    UNION { ProofsOf(create_evidence_tree(SubSeq(Leaves(u[1]), 1, u[2])), u[2]) :
            u \in { x \in TreeIds \X (1..MaxLeaves) : x[2] <= Len(Leaves(x[1])) } }

Init ==
    /\ heap = <<<<>>, <<>>>>
    /\ trees = <<NewTree(1, 2)>>
    /\ last = NoCall

\* a call that leaves the lists alone
Returns(op, t, data, index, proof, r) ==
    /\ trees' = [trees EXCEPT ![t] = r.tree]
    /\ last' = Call(op, t, data, index, proof, r)
    /\ UNCHANGED heap

AddLeafReturns(t, data, r) ==
    /\ trees' = [trees EXCEPT ![t] = r.tree]
    /\ heap' = r.heap
    /\ last' = Call("add_leaf", t, Some(data), None, None, r)

AddLeaf(t, cap) ==
    /\ Len(Leaves(t)) < cap
    /\ \E data \in Data : AddLeafReturns(t, data, add_leaf(trees[t], heap, data))

BuildTree(t) ==
    Returns("build_tree", t, None, None, None, build_tree(trees[t], heap))

GetRoot(t) ==
    Returns("get_root", t, None, None, None, get_root(trees[t], heap))

GetProof(t) ==
    \E leaf_data \in Data \cup {StrMissing} :
        Returns("get_proof", t, Some(leaf_data), None, None,
                get_proof(trees[t], heap, leaf_data))

GetProofByIndex(t) ==
    \E leaf_index \in (-1)..Len(LeafHashes(t)) :
        Returns("get_proof_by_index", t, None, Some(leaf_index), None,
                get_proof_by_index(trees[t], heap, leaf_index))

VerifyProof(t) ==
    \E proof \in IssuedProofs :
        Returns("verify_proof", t, None, None, Some(proof),
                verify_proof(trees[t], heap, proof))

GetTreeInfo(t) ==
    Returns("get_tree_info", t, None, None, None, get_tree_info(trees[t], heap))

Serialize(t) ==
    Returns("serialize", t, None, None, None, serialize(trees[t], heap))

ExportProofs(t) ==
    Returns("export_proofs", t, None, None, None, export_proofs(trees[t], heap))

Next ==
    \/ \E t \in TreeIds : AddLeaf(t, MaxLeaves)
    \/ \E t \in TreeIds : BuildTree(t)
    \/ \E t \in TreeIds : GetRoot(t)
    \/ \E t \in TreeIds : GetProof(t)
    \/ \E t \in TreeIds : GetProofByIndex(t)
    \/ \E t \in TreeIds : VerifyProof(t)
    \/ \E t \in TreeIds : GetTreeInfo(t)
    \/ \E t \in TreeIds : Serialize(t)
    \/ \E t \in TreeIds : ExportProofs(t)

Spec == Init /\ [][Next]_vars

(***************************************************************************)
(* Reference definitions used by the properties: the root and the levels   *)
(* as the specification describes them, over sequences of hashes.          *)
(***************************************************************************)
H(x) == <<[c |-> 0, p |-> x]>>

\* adjacent pairs left to right; an unpaired last hash is paired with itself
RECURSIVE RefPairs(_)
RefPairs(hs) ==
    IF Len(hs) = 0 THEN <<>>
    ELSE IF Len(hs) = 1 THEN <<H(hs[1] \o hs[1])>>
    ELSE <<H(hs[1] \o hs[2])>> \o RefPairs(SubSeq(hs, 3, Len(hs)))

RECURSIVE RefReduce(_)
RefReduce(hs) == IF Len(hs) <= 1 THEN hs ELSE RefReduce(RefPairs(hs))

\* the root of a store of leaf hashes: H("") for none, the hash itself for one
RefRoot(hs) == IF Len(hs) = 0 THEN H(<<>>) ELSE RefReduce(hs)[1]

RECURSIVE HashesOf(_)
HashesOf(nodes) ==
    IF Len(nodes) = 0 THEN <<>> ELSE <<Head(nodes).hash>> \o HashesOf(Tail(nodes))

Built(t) == trees[t].root # None

Dirty(t) == trees[t].root = None

\* the cache holds levels 0..k, level 0 the leaves in order, each level the
\* pairwise hash of the level below
CacheConsistent(t) ==
    LET cache == trees[t].tree_cache
    IN  DictLen(cache) # 0 =>
          /\ DOMAIN cache = 0..(DictLen(cache) - 1)
          /\ HashesOf(cache[0]) = LeafHashes(t)
          /\ \A k \in 1..(DictLen(cache) - 1) :
                HashesOf(cache[k]) = RefPairs(HashesOf(cache[k - 1]))

\* a returned proof verifies on its own and against the tree that issued it
ProofAccepted(hp, r) ==
    /\ r.exc = ""
    /\ r.ret # None
    /\ verify(r.ret[1]) = [ret |-> Some(TRUE), exc |-> ""]
    /\ verify_proof(r.tree, hp, r.ret[1]).ret = Some(TRUE)
    /\ verify_proof(r.tree, hp, r.ret[1]).exc = ""

(***************************************************************************)
(* C1: in every reachable state, for every index i in [0, leaf_count) the  *)
(* proof returned by get_proof_by_index(i), and for every stored leaf      *)
(* value d the proof returned by get_proof(d), verifies on its own and is  *)
(* accepted by verify_proof of the same tree; a proof just returned by     *)
(* either call is accepted as well.                                        *)
(***************************************************************************)
C1_ProofsVerify ==
    /\ \A t \in TreeIds :
          /\ \A i \in 0..(Len(LeafHashes(t)) - 1) :
                ProofAccepted(heap, get_proof_by_index(trees[t], heap, i))
          /\ \A j \in 1..Len(Leaves(t)) :
                ProofAccepted(heap, get_proof(trees[t], heap, Leaves(t)[j]))
    /\ (last.op \in {"get_proof", "get_proof_by_index"} /\ last.ret # None) =>
          /\ verify(last.ret[1]).ret = Some(TRUE)
          /\ verify_proof(trees[last.t], heap, last.ret[1]).ret = Some(TRUE)

\* a proof was returned for the unpaired last leaf of a three-leaf tree
C1_Witness ==
    /\ last.op = "get_proof_by_index"
    /\ last.ret # None
    /\ Len(LeafHashes(last.t)) = 3
    /\ last.index = Some(2)
    /\ Len(last.ret[1].proof_hashes) = 2
    /\ last.ret[1].proof_hashes[1] = last.ret[1].leaf_hash

(***************************************************************************)
(* C2: in every reachable state of a tree, a cached root equals the root   *)
(* of the current leaf hashes, and a non-empty level cache has the current *)
(* leaf hashes in insertion order at level 0 and at every higher level the *)
(* pairwise hash of the level below.                                       *)
(***************************************************************************)
C2_CacheConsistent ==
    \A t \in TreeIds :
        /\ Built(t) => trees[t].root[1].hash = RefRoot(LeafHashes(t))
        /\ CacheConsistent(t)

\* a tree of five leaves was rebuilt: four cached levels and a cached root
C2_Witness ==
    /\ last.op \in {"get_root", "verify_proof", "serialize", "export_proofs"}
    /\ last.built
    /\ Len(LeafHashes(last.t)) = 5
    /\ DictLen(trees[last.t].tree_cache) = 4
    /\ Built(last.t)

(***************************************************************************)
(* C3: for every store of n >= 2 leaves, get_root() returns the reference  *)
(* root, in which an unpaired last node is paired with itself; for three   *)
(* leaves it is H( H(h1||h2) || H(h3||h3) ).                               *)
(***************************************************************************)
C3_RootIsReference ==
    /\ \A t \in TreeIds :
          Len(LeafHashes(t)) >= 2 =>
            /\ get_root(trees[t], heap).ret = Some(RefRoot(LeafHashes(t)))
            /\ Len(LeafHashes(t)) = 3 =>
                 get_root(trees[t], heap).ret =
                    Some(H(H(H(Leaves(t)[1]) \o H(Leaves(t)[2]))
                           \o H(H(Leaves(t)[3]) \o H(Leaves(t)[3]))))
    /\ (last.op \in {"get_root", "build_tree"} /\ Len(LeafHashes(last.t)) >= 2) =>
          last.ret = Some(RefRoot(LeafHashes(last.t)))

\* get_root returned the root of three leaves
C3_Witness ==
    /\ last.op = "get_root"
    /\ Len(LeafHashes(last.t)) = 3
    /\ last.ret = Some(H(H(H(Leaves(last.t)[1]) \o H(Leaves(last.t)[2]))
                         \o H(H(Leaves(last.t)[3]) \o H(Leaves(last.t)[3]))))

(***************************************************************************)
(* C4: with no leaf get_root() returns the hash of the empty string, and   *)
(* with exactly one leaf it returns that leaf's hash, the value add_leaf   *)
(* returned for it.                                                        *)
(***************************************************************************)
C4_SmallRoots ==
    /\ \A t \in TreeIds :
          /\ Len(LeafHashes(t)) = 0 =>
                /\ get_root(trees[t], heap).ret = Some(H(<<>>))
                /\ get_root(trees[t], heap).exc = ""
          /\ Len(LeafHashes(t)) = 1 =>
                /\ get_root(trees[t], heap).ret = Some(H(Leaves(t)[1]))
                /\ get_root(trees[t], heap).ret = Some(LeafHashes(t)[1])
    /\ (last.op = "add_leaf" /\ Len(LeafHashes(last.t)) = 1) =>
          get_root(trees[last.t], heap).ret = last.ret
    /\ (last.op = "get_root" /\ Len(LeafHashes(last.t)) = 0) => last.ret = Some(H(<<>>))
    /\ (last.op = "get_root" /\ Len(LeafHashes(last.t)) = 1) =>
          last.ret = Some(LeafHashes(last.t)[1])

\* get_root built a one-leaf tree and returned the leaf's hash
C4_Witness ==
    /\ last.op = "get_root"
    /\ last.built
    /\ Len(LeafHashes(last.t)) = 1
    /\ last.ret = Some(H(Leaves(last.t)[1]))

(***************************************************************************)
(* C5: every add_leaf(data) returns H(data) without raising, appends data  *)
(* to leaves and H(data) to leaf_hashes at the end, leaves every earlier   *)
(* entry, every other list and every other tree as it was, and leaves the  *)
(* tree Dirty: the level cache is empty and the cached root is absent.     *)
(***************************************************************************)
C5_AddLeafFrame ==
    [][last'.op = "add_leaf" =>
          /\ last'.exc = ""
          /\ last'.ret = Some(H(last'.data[1]))
          /\ trees'[last'.t].leaves = trees[last'.t].leaves
          /\ trees'[last'.t].leaf_hashes = trees[last'.t].leaf_hashes
          /\ heap'[trees[last'.t].leaves] = Append(heap[trees[last'.t].leaves], last'.data[1])
          /\ heap'[trees[last'.t].leaf_hashes] =
                Append(heap[trees[last'.t].leaf_hashes], H(last'.data[1]))
          /\ \A l \in DOMAIN heap :
                l \notin {trees[last'.t].leaves, trees[last'.t].leaf_hashes} =>
                   heap'[l] = heap[l]
          /\ DOMAIN heap' = DOMAIN heap
          /\ \A u \in TreeIds : u # last'.t => trees'[u] = trees[u]
          /\ trees'[last'.t].tree_cache = EmptyDict
          /\ trees'[last'.t].root = None]_vars

\* a leaf was appended behind two others, and the tree is Dirty
C5_Witness ==
    /\ last.op = "add_leaf"
    /\ Len(Leaves(last.t)) = 3
    /\ Leaves(last.t)[3] = last.data[1]
    /\ Dirty(last.t)
    /\ DictLen(trees[last.t].tree_cache) = 0

(***************************************************************************)
(* C6: a new tree is Dirty (no cached root); add_leaf always leaves the    *)
(* tree Dirty; build_tree and get_root always leave it Built; no call      *)
(* other than add_leaf changes a leaf store; and the length of a leaf      *)
(* store never decreases.                                                  *)
(***************************************************************************)
C6_StateMachine ==
    /\ \A t \in TreeIds : Dirty(t) /\ Leaves(t) = <<>> /\ LeafHashes(t) = <<>>
    /\ [][/\ last'.op = "add_leaf" => trees'[last'.t].root = None
          /\ last'.op \in {"build_tree", "get_root"} => trees'[last'.t].root # None
          /\ last'.op # "add_leaf" => heap' = heap
          /\ \A t \in TreeIds :
                /\ trees'[t].leaves = trees[t].leaves
                /\ trees'[t].leaf_hashes = trees[t].leaf_hashes
                /\ Len(heap'[trees[t].leaves]) >= Len(heap[trees[t].leaves])
                /\ Len(heap'[trees[t].leaf_hashes]) >= Len(heap[trees[t].leaf_hashes])
                /\ SubSeq(heap'[trees[t].leaves], 1, Len(heap[trees[t].leaves]))
                      = heap[trees[t].leaves]]_vars

\* build_tree made a Dirty tree of three leaves Built
C6_Witness ==
    /\ last.op = "build_tree"
    /\ Len(Leaves(last.t)) = 3
    /\ Built(last.t)

(***************************************************************************)
(* C7: a get_root() call on a Built tree returns the cached root's hash    *)
(* without running build_tree and leaves leaves, leaf_hashes, the level    *)
(* cache and the cached root unchanged; consecutive calls return the same  *)
(* hash.                                                                   *)
(***************************************************************************)
C7_GetRootIdempotent ==
    [][(last'.op = "get_root" /\ trees[last'.t].root # None) =>
          /\ trees' = trees
          /\ heap' = heap
          /\ last'.exc = ""
          /\ ~last'.built
          /\ last'.ret = Some(trees[last'.t].root[1].hash)
          /\ (last.op = "get_root" /\ last.t = last'.t) => last'.ret = last.ret]_vars

\* get_root answered from the cached root of a three-leaf tree
C7_Witness ==
    /\ last.op = "get_root"
    /\ ~last.built
    /\ Len(Leaves(last.t)) = 3
    /\ last.ret = Some(trees[last.t].root[1].hash)

(***************************************************************************)
(* C10: get_proof_by_index(i) returns None for every i < 0 and every       *)
(* i >= leaf_count, and get_proof(d) returns None for every d that is not  *)
(* in the leaf store; neither raises, and the tree (leaves, cache, root)   *)
(* is left as it was.                                                      *)
(***************************************************************************)
NotFound(t, r) == r.ret = None /\ r.exc = "" /\ r.tree = trees[t] /\ ~r.built

C10_NotFoundIsNormal ==
    /\ \A t \in TreeIds :
          /\ \A i \in {-2, -1, Len(LeafHashes(t)), Len(LeafHashes(t)) + 1} :
                NotFound(t, get_proof_by_index(trees[t], heap, i))
          /\ \A d \in Data \cup {StrMissing} :
                (\A j \in 1..Len(Leaves(t)) : Leaves(t)[j] # d) =>
                   NotFound(t, get_proof(trees[t], heap, d))
    /\ (/\ last.op = "get_proof_by_index"
        /\ (last.index[1] < 0 \/ last.index[1] >= Len(LeafHashes(last.t)))) =>
          last.ret = None /\ last.exc = ""
    /\ (/\ last.op = "get_proof"
        /\ \A j \in 1..Len(Leaves(last.t)) : Leaves(last.t)[j] # last.data[1]) =>
          last.ret = None /\ last.exc = ""

\* index leaf_count was asked of a Dirty tree of three leaves, which stayed Dirty
C10_Witness ==
    /\ last.op = "get_proof_by_index"
    /\ Len(LeafHashes(last.t)) = 3
    /\ last.index = Some(3)
    /\ last.ret = None
    /\ Dirty(last.t)

(***************************************************************************)
(* Two tree instances, each with lists of its own, driven independently by *)
(* add_leaf, build_tree, get_root, get_proof, get_proof_by_index and       *)
(* serialize.                                                              *)
(***************************************************************************)
InitTwo ==
    /\ heap = <<<<>>, <<>>, <<>>, <<>>>>
    /\ trees = <<NewTree(1, 2), NewTree(3, 4)>>
    /\ last = NoCall

NextTwo ==
    \/ \E t \in TreeIds : AddLeaf(t, MaxLeavesTwo)
    \/ \E t \in TreeIds : BuildTree(t)
    \/ \E t \in TreeIds : GetRoot(t)
    \/ \E t \in TreeIds : GetProof(t)
    \/ \E t \in TreeIds : GetProofByIndex(t)
    \/ \E t \in TreeIds : Serialize(t)

SpecTwo == InitTwo /\ [][NextTwo]_vars

(***************************************************************************)
(* C8: whenever two tree instances hold the same sequence of leaves, their *)
(* get_root() calls return the same hash, whatever build_tree, get_root,   *)
(* get_proof, get_proof_by_index and serialize calls each instance went    *)
(* through between its add_leaf calls; both equal the root of a tree fed   *)
(* the sequence in one batch.                                              *)
(***************************************************************************)
BatchRoot(seq) == get_root(create_evidence_tree(seq).tree, create_evidence_tree(seq).heap).ret

C8_RootDependsOnLeavesOnly ==
    /\ \A t \in TreeIds : \A u \in TreeIds :
          Leaves(t) = Leaves(u) =>
            /\ get_root(trees[t], heap).ret = get_root(trees[u], heap).ret
            /\ get_root(trees[t], heap).ret = BatchRoot(Leaves(u))
    /\ last.op = "get_root" =>
          \A u \in TreeIds :
             (Leaves(u) = Leaves(last.t) /\ Built(u)) =>
                last.ret = Some(trees[u].root[1].hash)

\* get_root built one instance while the other, holding the same three
\* leaves, was Built already
C8_Witness ==
    /\ last.op = "get_root"
    /\ last.built
    /\ \E u \in TreeIds :
          /\ u # last.t
          /\ Leaves(u) = Leaves(last.t)
          /\ Len(Leaves(u)) = 3
          /\ Built(u)
          /\ trees[u].root[1].hash = last.ret[1]

(***************************************************************************)
(* Two tree instances to which pairwise-distinct values are added, in any  *)
(* order.                                                                  *)
(***************************************************************************)
DataPerm == {EmptyStr, StrA, StrB, StrC}

Range(seq) == { seq[j] : j \in 1..Len(seq) }

AddDistinct(t) ==
    \E data \in DataPerm \ Range(Leaves(t)) :
        AddLeafReturns(t, data, add_leaf(trees[t], heap, data))

NextPerm ==
    \/ \E t \in TreeIds : AddDistinct(t)
    \/ \E t \in TreeIds : GetRoot(t)

SpecPerm == InitTwo /\ [][NextPerm]_vars

(***************************************************************************)
(* C9: with hashing free of collisions, two trees holding the same n >= 2  *)
(* pairwise-distinct leaf values in different orders return different      *)
(* roots from get_root().                                                  *)
(***************************************************************************)
Distinct(seq) == \A j \in 1..Len(seq) : \A k \in 1..Len(seq) : seq[j] = seq[k] => j = k

Reordered(a, b) ==
    /\ Len(a) = Len(b)
    /\ Len(a) >= 2
    /\ Distinct(a)
    /\ Distinct(b)
    /\ Range(a) = Range(b)
    /\ a # b

C9_OrderSensitive ==
    /\ \A t \in TreeIds : \A u \in TreeIds :
          Reordered(Leaves(t), Leaves(u)) =>
            /\ get_root(trees[t], heap).exc = ""
            /\ get_root(trees[u], heap).exc = ""
            /\ get_root(trees[t], heap).ret # get_root(trees[u], heap).ret
    /\ last.op = "get_root" =>
          \A u \in TreeIds :
             (Reordered(Leaves(u), Leaves(last.t)) /\ Built(u)) =>
                last.ret # Some(trees[u].root[1].hash)

\* get_root was called on both instances, which hold the same three values,
\* none of them at the same position
C9_Witness ==
    /\ last.op = "get_root"
    /\ \E u \in TreeIds :
          /\ u # last.t
          /\ Built(u)
          /\ Built(last.t)
          /\ Len(Leaves(u)) = 3
          /\ Reordered(Leaves(u), Leaves(last.t))
          /\ \A j \in 1..3 : Leaves(u)[j] # Leaves(last.t)[j]
          /\ trees[u].root[1].hash # last.ret[1]

(***************************************************************************)
(* One tree instance and the proof objects callers present to it: proofs   *)
(* it issued now or earlier, proofs of another tree, proofs with one       *)
(* proof hash replaced, and proofs whose proof_directions list is shorter  *)
(* than their proof_hashes list.  Callers run proof.verify() on them and   *)
(* hand them to verify_proof.                                              *)
(***************************************************************************)
MaxLeavesProofs == 4

\* the proofs the tree returns for its leaves in the current state
CurrentProofs(t) ==
    { get_proof_by_index(trees[t], heap, i).ret[1] : i \in 0..(Len(LeafHashes(t)) - 1) }

\* hash values a caller can write over an entry of proof_hashes
TamperHashes(t) ==
    {H(StrMissing), RefRoot(LeafHashes(t))} \cup Range(LeafHashes(t))

\* proof with entry k of proof_hashes (1-based) replaced by another hash
Tampered(proof, hashes) ==
    { [proof EXCEPT !.proof_hashes[u[1]] = u[2]] :
        u \in { x \in (1..Len(proof.proof_hashes)) \X hashes :
                  x[2] # proof.proof_hashes[x[1]] } }

TamperedProofs(t) == UNION { Tampered(p, TamperHashes(t)) : p \in CurrentProofs(t) }

\* proof with the last entry of proof_directions dropped
ShortDirections(proof) ==
    [proof EXCEPT !.proof_directions = SubSeq(@, 1, Len(@) - 1)]

MalformedProofs(t) ==
    { ShortDirections(p) : p \in { q \in CurrentProofs(t) : Len(q.proof_directions) > 0 } }

\* the proofs of a tree that holds other leaves
ForeignProofs == ProofsOf(create_evidence_tree(<<StrB, StrC>>), 2)

\* the proof objects on which callers run proof.verify()
PresentedProofs(t) ==
    CurrentProofs(t) \cup ForeignProofs \cup TamperedProofs(t) \cup MalformedProofs(t)

\* the proof objects callers hand to verify_proof
PresentedToTree(t) ==
    IssuedProofs \cup ForeignProofs \cup MalformedProofs(t)
        \cup UNION { Tampered(p, {H(StrMissing)}) : p \in CurrentProofs(t) }

\* proof.verify() leaves every tree alone
VerifyReturns(t, proof, v) ==
    /\ last' = [op |-> "verify", t |-> t, data |-> None, index |-> None,
                proof |-> Some(proof), ret |-> v.ret, exc |-> v.exc, built |-> FALSE]
    /\ UNCHANGED <<heap, trees>>

ProofVerify(t) ==
    \E proof \in PresentedProofs(t) : VerifyReturns(t, proof, verify(proof))

VerifyPresented(t) ==
    \E proof \in PresentedToTree(t) :
        Returns("verify_proof", t, None, None, Some(proof),
                verify_proof(trees[t], heap, proof))

\* callers check the proofs on their own
NextProofs ==
    \/ \E t \in TreeIds : AddLeaf(t, MaxLeavesProofs)
    \/ \E t \in TreeIds : GetRoot(t)
    \/ \E t \in TreeIds : GetProof(t)
    \/ \E t \in TreeIds : GetProofByIndex(t)
    \/ \E t \in TreeIds : ProofVerify(t)

SpecProofs == Init /\ [][NextProofs]_vars

\* callers check the proofs against the tree
NextBound ==
    \/ \E t \in TreeIds : AddLeaf(t, MaxLeavesProofs)
    \/ \E t \in TreeIds : GetRoot(t)
    \/ \E t \in TreeIds : GetProofByIndex(t)
    \/ \E t \in TreeIds : VerifyPresented(t)

SpecBound == Init /\ [][NextBound]_vars

(***************************************************************************)
(* C11: with hashing free of collisions, for every proof a tree of n >= 2  *)
(* leaves returns from get_proof_by_index or get_proof, replacing any one  *)
(* entry of proof_hashes by a different hash value makes proof.verify()    *)
(* return False.                                                           *)
(***************************************************************************)
Rejected(v) == v.ret = Some(FALSE) /\ v.exc = ""

C11_TamperDetected ==
    /\ \A t \in TreeIds :
          Len(LeafHashes(t)) >= 2 =>
            /\ \A q \in TamperedProofs(t) : Rejected(verify(q))
            /\ \A j \in 1..Len(Leaves(t)) :
                  \A q \in Tampered(get_proof(trees[t], heap, Leaves(t)[j]).ret[1],
                                    TamperHashes(t)) :
                      Rejected(verify(q))
    /\ (last.op = "verify" /\ last.proof[1] \in TamperedProofs(last.t)) =>
          Rejected(last)

\* verify() returned False for a proof of a three-leaf tree whose second
\* proof hash was replaced, and True for the proof as issued
C11_Witness ==
    /\ last.op = "verify"
    /\ Len(LeafHashes(last.t)) = 3
    /\ last.ret = Some(FALSE)
    /\ \E p \in CurrentProofs(last.t) :
          /\ Len(p.proof_hashes) = 2
          /\ verify(p).ret = Some(TRUE)
          /\ last.proof[1] # p
          /\ last.proof[1] = [p EXCEPT !.proof_hashes[2] = last.proof[1].proof_hashes[2]]

(***************************************************************************)
(* C12: verify_proof(p) returns True exactly when p.root_hash equals the   *)
(* tree's current root and p.verify() is True; a proof that verifies on    *)
(* its own but carries another root (a proof of another tree, or one       *)
(* issued before a later add_leaf) is answered False.                      *)
(***************************************************************************)
CurrentRoot(t) == get_root(trees[t], heap).ret[1]

C12_TreeBoundVerify ==
    /\ \A t \in TreeIds : \A p \in IssuedProofs \cup ForeignProofs :
          /\ verify_proof(trees[t], heap, p).ret = Some(TRUE)
                <=> (p.root_hash = CurrentRoot(t) /\ verify(p).ret = Some(TRUE))
          /\ (verify(p).ret = Some(TRUE) /\ p.root_hash # CurrentRoot(t)) =>
                Rejected(verify_proof(trees[t], heap, p))
    /\ last.op = "verify_proof" =>
          /\ last.ret = Some(TRUE)
                <=> (/\ last.proof[1].root_hash = CurrentRoot(last.t)
                     /\ verify(last.proof[1]).ret = Some(TRUE))
          /\ (/\ verify(last.proof[1]).ret = Some(TRUE)
              /\ last.proof[1].root_hash # CurrentRoot(last.t)) => Rejected(last)

\* verify_proof answered False to a proof the tree issued when it had two
\* leaves, presented after a third leaf was added
C12_Witness ==
    /\ last.op = "verify_proof"
    /\ Len(LeafHashes(last.t)) = 3
    /\ last.ret = Some(FALSE)
    /\ verify(last.proof[1]).ret = Some(TRUE)
    /\ last.proof[1] \in ProofsOf(create_evidence_tree(SubSeq(Leaves(last.t), 1, 2)), 2)
    /\ last.proof[1].root_hash # CurrentRoot(last.t)

(***************************************************************************)
(* C14: every call of proof.verify() and of verify_proof(proof) returns a  *)
(* boolean and raises nothing, whatever proof object is presented,         *)
(* including one whose proof_directions list is shorter than its           *)
(* proof_hashes list.                                                      *)
(***************************************************************************)
C14_VerifyNeverRaises ==
    last.op \in {"verify", "verify_proof"} =>
        /\ last.exc = ""
        /\ last.ret \in {Some(TRUE), Some(FALSE)}

(***************************************************************************)
(* C18: get_proof(d) returns the proof whose leaf_index is the smallest    *)
(* index holding d; add_leaf(d) appends d even when d is stored already;   *)
(* and get_proof_by_index(i) returns the proof of index i for every        *)
(* occurrence.                                                             *)
(***************************************************************************)
Occurrences(seq, d) == { j - 1 : j \in { k \in 1..Len(seq) : seq[k] = d } }

FirstIndex(seq, d) ==
    CHOOSE m \in Occurrences(seq, d) : \A k \in Occurrences(seq, d) : m <= k

C18_FirstMatch ==
    /\ \A t \in TreeIds : \A j \in 1..Len(Leaves(t)) :
          /\ get_proof(trees[t], heap, Leaves(t)[j]).ret[1].leaf_index
                = FirstIndex(Leaves(t), Leaves(t)[j])
          /\ get_proof(trees[t], heap, Leaves(t)[j]).ret[1].leaf_hash
                = LeafHashes(t)[FirstIndex(Leaves(t), Leaves(t)[j]) + 1]
          /\ get_proof_by_index(trees[t], heap, j - 1).ret[1].leaf_index = j - 1
    /\ (last.op = "get_proof" /\ last.ret # None) =>
          last.ret[1].leaf_index = FirstIndex(Leaves(last.t), last.data[1])
    /\ last.op = "add_leaf" =>
          /\ Leaves(last.t)[Len(Leaves(last.t))] = last.data[1]
          /\ Len(LeafHashes(last.t)) = Len(Leaves(last.t))

\* get_proof returned index 0 for a value stored at indices 0 and 2
C18_Witness ==
    /\ last.op = "get_proof"
    /\ last.ret # None
    /\ Occurrences(Leaves(last.t), last.data[1]) = {0, 2}
    /\ last.ret[1].leaf_index = 0
    /\ get_proof_by_index(trees[last.t], heap, 2).ret[1].leaf_index = 2

(***************************************************************************)
(* C20: for a tree of n >= 2 leaves and every valid index i, the proof of  *)
(* get_proof_by_index(i) has one entry per cached level below the root; at *)
(* level k the node index is i div 2^k, the direction is "right" with      *)
(* sibling index + 1 for an even index and "left" with sibling index - 1   *)
(* for an odd one, the proof hash is the hash cached at the sibling index, *)
(* or the node's own hash when the sibling index is past the end of the    *)
(* level, which happens only for the last node of a level of odd length;   *)
(* the proof carries leaf_hashes[i], i and the tree's current root.  The   *)
(* proof of a single-leaf tree has no entries.                             *)
(***************************************************************************)
RECURSIVE Pow2(_)
Pow2(k) == IF k = 0 THEN 1 ELSE 2 * Pow2(k - 1)

\* the number of levels of the tree over a store of n >= 1 hashes
RECURSIVE RefHeight(_)
RefHeight(hs) == IF Len(hs) <= 1 THEN 1 ELSE 1 + RefHeight(RefPairs(hs))

RECURSIVE RefLevel(_, _)
RefLevel(hs, k) == IF k = 0 THEN hs ELSE RefPairs(RefLevel(hs, k - 1))

SiblingIndex(idx) == IF idx % 2 = 0 THEN idx + 1 ELSE idx - 1

PathRule(hs, i, proof, cache, root) ==
    /\ Len(proof.proof_hashes) = DictLen(cache) - 1
    /\ Len(proof.proof_directions) = DictLen(cache) - 1
    /\ DictLen(cache) = RefHeight(hs)
    /\ DOMAIN cache = 0..(RefHeight(hs) - 1)
    /\ \A k \in 0..(DictLen(cache) - 2) :
          /\ HashesOf(cache[k]) = RefLevel(hs, k)
          /\ proof.proof_directions[k + 1] =
                (IF (i \div Pow2(k)) % 2 = 0 THEN "right" ELSE "left")
          /\ proof.proof_hashes[k + 1] =
                (IF SiblingIndex(i \div Pow2(k)) < Len(cache[k])
                 THEN cache[k][SiblingIndex(i \div Pow2(k)) + 1].hash
                 ELSE cache[k][(i \div Pow2(k)) + 1].hash)
          /\ SiblingIndex(i \div Pow2(k)) >= Len(cache[k]) =>
                /\ (i \div Pow2(k)) = Len(cache[k]) - 1
                /\ Len(cache[k]) % 2 = 1
    /\ proof.leaf_hash = hs[i + 1]
    /\ proof.leaf_index = i
    /\ root # None
    /\ proof.root_hash = root[1].hash
    /\ proof.root_hash = RefRoot(hs)

PathRuleOf(hs, i, r) ==
    /\ r.exc = ""
    /\ r.ret # None
    /\ PathRule(hs, i, r.ret[1], r.tree.tree_cache, r.tree.root)

SingleLeafProof(hs, r) ==
    /\ r.exc = ""
    /\ r.ret # None
    /\ r.ret[1].proof_hashes = <<>>
    /\ r.ret[1].proof_directions = <<>>
    /\ r.ret[1].leaf_hash = hs[1]
    /\ r.ret[1].leaf_index = 0

C20_ProofPathRule ==
    /\ \A t \in TreeIds : \A i \in 0..(Len(LeafHashes(t)) - 1) :
          /\ Len(LeafHashes(t)) >= 2 =>
                PathRuleOf(LeafHashes(t), i, get_proof_by_index(trees[t], heap, i))
          /\ Len(LeafHashes(t)) = 1 =>
                SingleLeafProof(LeafHashes(t), get_proof_by_index(trees[t], heap, i))
    /\ (/\ last.op = "get_proof_by_index"
        /\ last.ret # None
        /\ Len(LeafHashes(last.t)) >= 2) =>
          PathRule(LeafHashes(last.t), last.index[1], last.ret[1],
                   trees[last.t].tree_cache, trees[last.t].root)

\* the proof of the unpaired third leaf of a three-leaf tree: its own hash to
\* the right at level 0, then the hash of the first pair to the left
C20_Witness ==
    /\ last.op = "get_proof_by_index"
    /\ Len(LeafHashes(last.t)) = 3
    /\ last.index = Some(2)
    /\ last.ret # None
    /\ last.ret[1].proof_directions = <<"right", "left">>
    /\ last.ret[1].proof_hashes =
          <<LeafHashes(last.t)[3], H(LeafHashes(last.t)[1] \o LeafHashes(last.t)[2])>>

(***************************************************************************)
(* The module-level verify_evidence_inclusion(evidence_hash, proof,        *)
(* expected_root).  proof is a dict: a function from the keys it holds.    *)
(***************************************************************************)
MaxLeavesInclusion == 3

ProofKeys == {"leaf_hash", "leaf_index", "proof_hashes", "proof_directions", "root_hash"}

\* MerkleProof.to_dict
to_dict(proof) ==
    [leaf_hash |-> proof.leaf_hash, leaf_index |-> proof.leaf_index,
     proof_hashes |-> proof.proof_hashes, proof_directions |-> proof.proof_directions,
     root_hash |-> proof.root_hash]

\* the dict without one of its keys
DictDel(d, k) == [x \in (DOMAIN d) \ {k} |-> d[x]]

\* variant: expected_root is not compared with the proof's root
inclusion_checks_any_root(actual_leaf_hash, proof, expected_root) ==
    IF ~(ProofKeys \subseteq DOMAIN proof)
    THEN [ret |-> None, exc |-> "KeyError"]
    ELSE IF proof.leaf_hash # actual_leaf_hash
    THEN [ret |-> Some(FALSE), exc |-> ""]
    ELSE verify(MerkleProof(proof.leaf_hash, proof.leaf_index, proof.proof_hashes,
                            proof.proof_directions, proof.root_hash))

\* the body of the try block: MerkleProof(...) reads the five keys, then the
\* three checks are joined by "and"
inclusion_checks(actual_leaf_hash, proof, expected_root) ==
    IF ~(ProofKeys \subseteq DOMAIN proof)
    THEN [ret |-> None, exc |-> "KeyError"]
    ELSE IF proof.leaf_hash # actual_leaf_hash
    THEN [ret |-> Some(FALSE), exc |-> ""]
    ELSE IF proof.root_hash # expected_root
    THEN [ret |-> Some(FALSE), exc |-> ""]
    ELSE verify(MerkleProof(proof.leaf_hash, proof.leaf_index, proof.proof_hashes,
                            proof.proof_directions, proof.root_hash))

\* except Exception: return False
inclusion_caught(v) ==
    IF v.exc # "" THEN [ret |-> Some(FALSE), exc |-> ""] ELSE v

verify_evidence_inclusion(evidence_hash, proof, expected_root) ==
    inclusion_caught(inclusion_checks(sha256_hexdigest(evidence_hash), proof, expected_root))

\* the dicts callers pass: exported proofs as issued, of another tree, with
\* the first proof hash replaced, with a short proof_directions, with one key
\* missing, and a dict with none of the keys
PresentedDicts(t) ==
    { to_dict(p) : p \in CurrentProofs(t) \cup ForeignProofs \cup MalformedProofs(t) }
        \cup { to_dict([p EXCEPT !.proof_hashes[1] = H(StrMissing)]) :
                 p \in { q \in CurrentProofs(t) : Len(q.proof_hashes) > 0 } }
        \cup { DictDel(to_dict(get_proof_by_index(trees[t], heap, 0).ret[1]), k) :
                 k \in { x \in ProofKeys : Len(LeafHashes(t)) > 0 } }
        \cup { [invalid |-> "proof"] }

ExpectedRoots(t) == {get_root(trees[t], heap).ret[1], H(StrMissing)}

InclusionReturns(t, evidence_hash, proof, expected_root, v) ==
    /\ last' = [op |-> "verify_evidence_inclusion", t |-> t, data |-> Some(evidence_hash),
                index |-> None, proof |-> Some(proof), expected_root |-> expected_root,
                ret |-> v.ret, exc |-> v.exc, built |-> FALSE]
    /\ UNCHANGED <<heap, trees>>

VerifyEvidenceInclusion(t) ==
    \E evidence_hash \in Data \cup {StrMissing} :
      \E proof \in PresentedDicts(t) :
        \E expected_root \in ExpectedRoots(t) :
           InclusionReturns(t, evidence_hash, proof, expected_root,
                            verify_evidence_inclusion(evidence_hash, proof, expected_root))

NextInclusion ==
    \/ \E t \in TreeIds : AddLeaf(t, MaxLeavesInclusion)
    \/ \E t \in TreeIds : GetRoot(t)
    \/ \E t \in TreeIds : VerifyEvidenceInclusion(t)

SpecInclusion == Init /\ [][NextInclusion]_vars

(***************************************************************************)
(* C13: verify_evidence_inclusion(raw, proof, expected_root) returns True  *)
(* exactly when H(raw) equals the proof's leaf_hash, the proof's root_hash *)
(* equals expected_root and the proof verifies; every other call,          *)
(* including one with a verifying proof and another expected_root and one  *)
(* with a dict that lacks a field, returns False; no call raises.          *)
(***************************************************************************)
AllThreeHold(raw, proof, expected_root) ==
    /\ ProofKeys \subseteq DOMAIN proof
    /\ proof.leaf_hash = H(raw)
    /\ proof.root_hash = expected_root
    /\ verify(MerkleProof(proof.leaf_hash, proof.leaf_index, proof.proof_hashes,
                          proof.proof_directions, proof.root_hash)).ret = Some(TRUE)

C13_InclusionAllThree ==
    last.op = "verify_evidence_inclusion" =>
        /\ last.exc = ""
        /\ last.ret \in {Some(TRUE), Some(FALSE)}
        /\ last.ret = Some(TRUE)
              <=> AllThreeHold(last.data[1], last.proof[1], last.expected_root)

\* False was returned for a proof of a three-leaf tree that verifies and
\* whose leaf is the hashed value, because expected_root is another root
C13_Witness ==
    /\ last.op = "verify_evidence_inclusion"
    /\ Len(LeafHashes(last.t)) = 3
    /\ last.ret = Some(FALSE)
    /\ ProofKeys \subseteq DOMAIN last.proof[1]
    /\ last.proof[1].leaf_hash = H(last.data[1])
    /\ last.proof[1].root_hash = RefRoot(LeafHashes(last.t))
    /\ last.proof[1].root_hash # last.expected_root
    /\ verify(last.proof[1]).ret = Some(TRUE)

(***************************************************************************)
(* MerkleTree.deserialize.  data is a dict: a function from the keys it    *)
(* holds; its leaves and leaf_hashes are list objects of the heap.  The    *)
(* two lists cls() allocates are replaced at once and are never reachable, *)
(* so the heap is returned as it was.                                      *)
(***************************************************************************)
MaxLeavesSer == 3

\* return tree
deserialize_return(hp, r) ==
    IF r.exc # ""
    THEN [heap |-> hp, ret |-> None, exc |-> r.exc, built |-> r.built]
    ELSE [heap |-> hp, ret |-> Some(r.tree), exc |-> "", built |-> r.built]

\* if tree.leaf_hashes: tree.build_tree()
deserialize_build(tr, hp, data) ==
    IF Len(hp[tr.leaf_hashes]) # 0
    THEN build_tree(tr, hp)
    ELSE [tree |-> tr, ret |-> None, exc |-> "", built |-> FALSE]

\* variant: a missing list is read as an empty list
deserialize_defaults(hp, data) ==
    deserialize_return(Append(hp, <<>>),
        deserialize_build(NewTree(IF "leaves" \in DOMAIN data
                                  THEN data.leaves ELSE Len(hp) + 1,
                                  IF "leaf_hashes" \in DOMAIN data
                                  THEN data.leaf_hashes ELSE Len(hp) + 1),
                          Append(hp, <<>>), data))

\* tree = cls(); tree.leaves = data["leaves"]; tree.leaf_hashes = data["leaf_hashes"]
deserialize(hp, data) ==
    IF "leaves" \notin DOMAIN data \/ "leaf_hashes" \notin DOMAIN data
    THEN [heap |-> hp, ret |-> None, exc |-> "KeyError", built |-> FALSE]
    ELSE deserialize_return(hp, deserialize_build(NewTree(data.leaves, data.leaf_hashes),
                                                  hp, data))

(***************************************************************************)
(* A tree and the tree most recently returned by deserialize.  The         *)
(* document handed to deserialize is the one serialize just returned, as   *)
(* it is, with its root_hash replaced, or with keys removed.               *)
(***************************************************************************)
\* values written over the exported root
TamperRoots == {H(StrMissing), H(EmptyStr), StrA}

DocKeys == {"leaves", "leaf_hashes", "root_hash", "tree_info"}

DocVariants(doc) ==
    {doc}
        \cup { [doc EXCEPT !.root_hash = x] : x \in TamperRoots \ {doc.root_hash} }
        \cup { DictDel(doc, k) : k \in DocKeys }
        \cup { DictDel(DictDel(doc, "leaves"), "leaf_hashes") }

\* the caller keeps the returned tree as its second tree
DeserializeReturns(src, data, r) ==
    /\ trees' = IF r.ret = None THEN trees
                ELSE IF Len(trees) = 1 THEN Append(trees, r.ret[1])
                ELSE [trees EXCEPT ![2] = r.ret[1]]
    /\ heap' = r.heap
    /\ last' = [op |-> "deserialize", t |-> IF r.ret = None THEN 0 ELSE 2, src |-> src,
                data |-> None, index |-> None, proof |-> None, doc |-> data,
                ret |-> r.ret, exc |-> r.exc, built |-> r.built]

Deserialize ==
    /\ last.op = "serialize"
    /\ last.ret # None
    /\ \E data \in DocVariants(last.ret[1]) :
          DeserializeReturns(last.t, data, deserialize(heap, data))

NextSer ==
    \/ \E t \in TreeIds : AddLeaf(t, MaxLeavesSer)
    \/ \E t \in TreeIds : GetRoot(t)
    \/ \E t \in TreeIds : GetProofByIndex(t)
    \/ \E t \in TreeIds : Serialize(t)
    \/ Deserialize

SpecSer == Init /\ [][NextSer]_vars

(***************************************************************************)
(* C15: for every tree t, deserialize(t.serialize()) returns a tree with   *)
(* the same leaves and leaf_hashes in the same order, whose get_root()     *)
(* equals t.get_root(), and every proof get_proof_by_index returns on it   *)
(* verifies on its own and against it.                                     *)
(***************************************************************************)
C15_RoundTrip ==
    [][(last'.op = "deserialize" /\ last'.doc = last.ret[1]) =>
          /\ last'.exc = ""
          /\ last'.ret # None
          /\ heap'[last'.ret[1].leaves] = heap[trees[last.t].leaves]
          /\ heap'[last'.ret[1].leaf_hashes] = heap[trees[last.t].leaf_hashes]
          /\ get_root(last'.ret[1], heap').ret = get_root(trees[last.t], heap).ret
          /\ \A i \in 0..(Len(heap'[last'.ret[1].leaf_hashes]) - 1) :
                ProofAccepted(heap', get_proof_by_index(last'.ret[1], heap', i))]_vars

(***************************************************************************)
(* C16: the tree deserialize returns never takes its root from the         *)
(* document: its get_root() is the root recomputed from the document's     *)
(* leaves, which is what get_root() of the tree that was serialized        *)
(* returns, and a root_hash written over the exported one is neither       *)
(* returned by get_root(), nor cached, nor embedded in a proof.            *)
(***************************************************************************)
ValueHashes(seq) == [j \in 1..Len(seq) |-> H(seq[j])]

C16_ExportedRootNotTrusted ==
    (last.op = "deserialize" /\ last.ret # None) =>
        /\ get_root(trees[2], heap).exc = ""
        /\ get_root(trees[2], heap).ret = Some(RefRoot(ValueHashes(heap[last.doc.leaves])))
        /\ get_root(trees[2], heap).ret = get_root(trees[last.src], heap).ret
        /\ ("root_hash" \in DOMAIN last.doc
               /\ last.doc.root_hash # RefRoot(ValueHashes(heap[last.doc.leaves]))) =>
              /\ get_root(trees[2], heap).ret # Some(last.doc.root_hash)
              /\ trees[2].root # None => trees[2].root[1].hash # last.doc.root_hash
              /\ \A i \in 0..(Len(LeafHashes(2)) - 1) :
                    /\ get_proof_by_index(trees[2], heap, i).ret # None
                    /\ get_proof_by_index(trees[2], heap, i).ret[1].root_hash
                          # last.doc.root_hash

(***************************************************************************)
(* C17: deserialize of a document without the leaves key or without the    *)
(* leaf_hashes key raises and returns no tree; no tree, empty or           *)
(* otherwise, comes out of such a document.                                *)
(***************************************************************************)
C17_DeserializeFailsLoudly ==
    [][(/\ last'.op = "deserialize"
        /\ ("leaves" \notin DOMAIN last'.doc \/ "leaf_hashes" \notin DOMAIN last'.doc)) =>
          /\ last'.exc = "KeyError"
          /\ last'.ret = None
          /\ trees' = trees
          /\ heap' = heap]_vars

\* a document of three leaves without its leaf_hashes key was refused
C17_Witness ==
    /\ last.op = "deserialize"
    /\ "leaves" \in DOMAIN last.doc
    /\ "leaf_hashes" \notin DOMAIN last.doc
    /\ Len(heap[last.doc.leaves]) = 3
    /\ last.exc = "KeyError"
    /\ last.ret = None

(***************************************************************************)
(* One tree instance used by two threads without a lock: one thread runs   *)
(* build_tree calls, the other add_leaf calls, and each statement that     *)
(* reads or writes the tree is a step of its own.  last holds the frame of *)
(* each thread (its position and its local variables), whether a step of   *)
(* one call ran while a call of the other thread was in progress, and the  *)
(* result of the latest get_proof_by_index, which is called when no other  *)
(* call is in progress.                                                    *)
(***************************************************************************)
MaxLeavesConc == 4

IdleBuilder == [pc |-> "idle", current_level |-> <<>>, level_index |-> 0]

IdleAdder == [pc |-> "idle", data |-> None, leaf_hash |-> None]

ConcInit ==
    /\ heap = <<<<>>, <<>>>>
    /\ trees = <<NewTree(1, 2)>>
    /\ last = [op |-> "init", t |-> 1, builder |-> IdleBuilder, adder |-> IdleAdder,
               raced |-> FALSE, index |-> None, ret |-> None, exc |-> ""]

\* a step of the build_tree thread
BuilderStep(t, tree, builder) ==
    /\ trees' = [trees EXCEPT ![t] = tree]
    /\ last' = [last EXCEPT !.op = "build_tree", !.builder = builder,
                            !.raced = @ \/ last.adder.pc # "idle",
                            !.index = None, !.ret = None, !.exc = ""]
    /\ UNCHANGED heap

\* a step of the add_leaf thread
AdderStep(t, tree, hp, adder) ==
    /\ trees' = [trees EXCEPT ![t] = tree]
    /\ heap' = hp
    /\ last' = [last EXCEPT !.op = "add_leaf", !.adder = adder,
                            !.raced = @ \/ last.builder.pc # "idle",
                            !.index = None, !.ret = None, !.exc = ""]

\* self.root.hash: AttributeError, which ends the call, when another thread
\* has set self.root = None
BuilderReadsRoot(t, builder) ==
    IF trees[t].root = None
    THEN /\ last' = [last EXCEPT !.op = "build_tree", !.builder = IdleBuilder,
                                 !.raced = @ \/ last.adder.pc # "idle",
                                 !.index = None, !.ret = None,
                                 !.exc = "AttributeError"]
         /\ UNCHANGED <<heap, trees>>
    ELSE BuilderStep(t, trees[t], builder)

\* if not self.leaf_hashes:
BuildStart(t) ==
    /\ last.builder.pc = "idle"
    /\ BuilderStep(t, trees[t],
                   [IdleBuilder EXCEPT !.pc = IF Len(LeafHashes(t)) = 0
                                              THEN "empty_root" ELSE "check_one"])

\* empty_hash = self._hash_data(""); self.root = MerkleNode(hash=empty_hash);
\* return empty_hash
BuildEmptyRoot(t) ==
    /\ last.builder.pc = "empty_root"
    /\ BuilderStep(t, [trees[t] EXCEPT !.root =
                          Some(MerkleNode(hash_data(EmptyStr), None, None, None))],
                   IdleBuilder)

\* if len(self.leaf_hashes) == 1:
BuildCheckOne(t) ==
    /\ last.builder.pc = "check_one"
    /\ BuilderStep(t, trees[t],
                   [IdleBuilder EXCEPT !.pc = IF Len(LeafHashes(t)) = 1
                                              THEN "one_root" ELSE "leaves"])

\* self.root = MerkleNode(hash=self.leaf_hashes[0], data=self.leaves[0])
BuildOneRoot(t) ==
    /\ last.builder.pc = "one_root"
    /\ BuilderStep(t, [trees[t] EXCEPT !.root =
                          Some(MerkleNode(LeafHashes(t)[1], None, None,
                                          Some(Leaves(t)[1])))],
                   [IdleBuilder EXCEPT !.pc = "one_return"])

\* return self.root.hash
BuildOneReturn(t) ==
    /\ last.builder.pc = "one_return"
    /\ BuilderReadsRoot(t, IdleBuilder)

\* current_level = [MerkleNode(...) for ... in zip(self.leaf_hashes, self.leaves)]
BuildLeaves(t) ==
    /\ last.builder.pc = "leaves"
    /\ BuilderStep(t, trees[t],
                   [pc |-> "cache0",
                    current_level |-> leaf_nodes(LeafHashes(t), Leaves(t), 1, <<>>),
                    level_index |-> 0])

\* self._tree_cache[level_index] = current_level.copy()
BuildCache0(t) ==
    /\ last.builder.pc = "cache0"
    /\ BuilderStep(t, [trees[t] EXCEPT !.tree_cache =
                          DictSet(@, 0, last.builder.current_level)],
                   [last.builder EXCEPT !.pc = "loop"])

\* one pass of the while loop: the next level is computed and cached
BuildLevelCached(t, next_level) ==
    BuilderStep(t, [trees[t] EXCEPT !.tree_cache =
                       DictSet(@, last.builder.level_index + 1, next_level)],
                [pc |-> "loop", current_level |-> next_level,
                 level_index |-> last.builder.level_index + 1])

BuildLevel(t) ==
    /\ last.builder.pc = "loop"
    /\ Len(last.builder.current_level) > 1
    /\ BuildLevelCached(t, pair_nodes(last.builder.current_level, 0, <<>>))

\* self.root = current_level[0]
BuildRoot(t) ==
    /\ last.builder.pc = "loop"
    /\ Len(last.builder.current_level) = 1
    /\ BuilderStep(t, [trees[t] EXCEPT !.root = Some(last.builder.current_level[1])],
                   [last.builder EXCEPT !.pc = "log"])

\* logger.info(f"... root: {self.root.hash[:16]}...")
BuildLog(t) ==
    /\ last.builder.pc = "log"
    /\ BuilderReadsRoot(t, [last.builder EXCEPT !.pc = "return"])

\* return self.root.hash
BuildReturn(t) ==
    /\ last.builder.pc = "return"
    /\ BuilderReadsRoot(t, IdleBuilder)

\* leaf_hash = self._hash_data(data); self.leaves.append(data)
AddStart(t) ==
    /\ last.adder.pc = "idle"
    /\ Len(Leaves(t)) < MaxLeavesConc
    /\ \E data \in Data :
          AdderStep(t, trees[t], [heap EXCEPT ![trees[t].leaves] = Append(@, data)],
                    [pc |-> "hashes", data |-> Some(data),
                     leaf_hash |-> Some(hash_data(data))])

\* self.leaf_hashes.append(leaf_hash)
AddHashes(t) ==
    /\ last.adder.pc = "hashes"
    /\ AdderStep(t, trees[t],
                 [heap EXCEPT ![trees[t].leaf_hashes] = Append(@, last.adder.leaf_hash[1])],
                 [last.adder EXCEPT !.pc = "clear"])

\* self._tree_cache.clear()
AddClear(t) ==
    /\ last.adder.pc = "clear"
    /\ AdderStep(t, [trees[t] EXCEPT !.tree_cache = EmptyDict], heap,
                 [last.adder EXCEPT !.pc = "root"])

\* self.root = None; return leaf_hash
AddRoot(t) ==
    /\ last.adder.pc = "root"
    /\ AdderStep(t, [trees[t] EXCEPT !.root = None], heap, IdleAdder)

Quiescent == last.builder.pc = "idle" /\ last.adder.pc = "idle"

ProbeReturns(t, leaf_index, r) ==
    /\ trees' = [trees EXCEPT ![t] = r.tree]
    /\ last' = [last EXCEPT !.op = "get_proof_by_index", !.index = Some(leaf_index),
                            !.ret = r.ret, !.exc = r.exc]
    /\ UNCHANGED heap

\* get_proof_by_index called once both calls have returned
Probe(t) ==
    /\ Quiescent
    /\ \E leaf_index \in 0..(Len(LeafHashes(t)) - 1) :
          ProbeReturns(t, leaf_index, get_proof_by_index(trees[t], heap, leaf_index))

NextConc ==
    \/ \E t \in TreeIds : BuildStart(t)
    \/ \E t \in TreeIds : BuildEmptyRoot(t)
    \/ \E t \in TreeIds : BuildCheckOne(t)
    \/ \E t \in TreeIds : BuildOneRoot(t)
    \/ \E t \in TreeIds : BuildOneReturn(t)
    \/ \E t \in TreeIds : BuildLeaves(t)
    \/ \E t \in TreeIds : BuildCache0(t)
    \/ \E t \in TreeIds : BuildLevel(t)
    \/ \E t \in TreeIds : BuildRoot(t)
    \/ \E t \in TreeIds : BuildLog(t)
    \/ \E t \in TreeIds : BuildReturn(t)
    \/ \E t \in TreeIds : AddStart(t)
    \/ \E t \in TreeIds : AddHashes(t)
    \/ \E t \in TreeIds : AddClear(t)
    \/ \E t \in TreeIds : AddRoot(t)
    \/ \E t \in TreeIds : Probe(t)

SpecConc == ConcInit /\ [][NextConc]_vars

(***************************************************************************)
(* C19: without a lock the tree is not safe.  Steps of add_leaf that run   *)
(* between the steps of a build_tree call leave, once both calls have      *)
(* returned, a cached root that is not the root of the leaf store, or a    *)
(* level cache without its lower levels.  Such a state arises only when    *)
(* the two calls overlapped, and in it every get_proof_by_index call on a  *)
(* valid index raises or returns a proof that is not a verifying proof     *)
(* against the root of the leaf store.                                     *)
(***************************************************************************)
RootStale(t) == Built(t) /\ trees[t].root[1].hash # RefRoot(LeafHashes(t))

\* the cached levels are not the levels of the leaf store
CacheBroken(t) ==
    /\ Built(t)
    /\ Len(LeafHashes(t)) >= 2
    /\ \/ DOMAIN trees[t].tree_cache # 0..(RefHeight(LeafHashes(t)) - 1)
       \/ \E k \in DOMAIN trees[t].tree_cache :
             HashesOf(trees[t].tree_cache[k]) # RefLevel(LeafHashes(t), k)

\* the root is cached but the level of the leaves is not
CachePartial(t) ==
    /\ Built(t)
    /\ Len(LeafHashes(t)) >= 2
    /\ 0 \notin DOMAIN trees[t].tree_cache

ProofCorrect(hs, i, r) ==
    /\ r.exc = ""
    /\ r.ret # None
    /\ r.ret[1].leaf_hash = hs[i + 1]
    /\ r.ret[1].root_hash = RefRoot(hs)
    /\ verify(r.ret[1]) = [ret |-> Some(TRUE), exc |-> ""]

C19_UnsafeWithoutLock ==
    \A t \in TreeIds :
        /\ (Quiescent /\ (RootStale(t) \/ CacheBroken(t))) => last.raced
        /\ (Quiescent /\ (RootStale(t) \/ CachePartial(t))) =>
              \A i \in 0..(Len(LeafHashes(t)) - 1) :
                  ~ProofCorrect(LeafHashes(t), i, get_proof_by_index(trees[t], heap, i))

\* both calls have returned, the cached root is the root of the store before
\* the third leaf was added, and get_proof_by_index returned a proof that
\* verifies against that old root
C19_Witness ==
    /\ Quiescent
    /\ last.raced
    /\ last.op = "get_proof_by_index"
    /\ Len(LeafHashes(1)) = 3
    /\ RootStale(1)
    /\ trees[1].root[1].hash = RefRoot(SubSeq(LeafHashes(1), 1, 2))
    /\ last.exc = ""
    /\ last.ret # None
    /\ last.ret[1].root_hash # RefRoot(LeafHashes(1))
    /\ verify(last.ret[1]).ret = Some(TRUE)

(***************************************************************************)
(* One tree that is grown, built and inspected: add_leaf, build_tree,      *)
(* get_root, get_tree_info and serialize in any order.                     *)
(***************************************************************************)
MaxLeavesBuild == 6

NextBuild ==
    \/ \E t \in TreeIds : AddLeaf(t, MaxLeavesBuild)
    \/ \E t \in TreeIds : BuildTree(t)
    \/ \E t \in TreeIds : GetRoot(t)
    \/ \E t \in TreeIds : GetTreeInfo(t)
    \/ \E t \in TreeIds : Serialize(t)

SpecBuild == Init /\ [][NextBuild]_vars

(***************************************************************************)
(* C21: build_tree returns for every leaf count, and for n >= 2 leaves the *)
(* cache it leaves has levels 0..L with L = ceil(log2(n)): level 0 is the  *)
(* leaf nodes in order, level k+1 has ceil(len(level k) / 2) nodes, level  *)
(* L has one node, which is the root; every cached node has no children or *)
(* two child references, never exactly one, and the hash of a node with    *)
(* children is H(left.hash || right.hash).                                 *)
(***************************************************************************)
\* the smallest L with 2^L >= n
CeilLog2(n) == CHOOSE L \in 0..n : Pow2(L) >= n /\ \A m \in 0..(L - 1) : Pow2(m) < n

RECURSIVE NodeShape(_)
NodeShape(node) ==
    IF node.left = None /\ node.right = None
    THEN TRUE
    ELSE /\ node.left # None
         /\ node.right # None
         /\ node.hash = H(node.left[1].hash \o node.right[1].hash)
         /\ NodeShape(node.left[1])
         /\ NodeShape(node.right[1])

LevelsRule(hs, lv, r) ==
    /\ r.exc = ""
    /\ r.ret # None
    /\ r.tree.root # None
    /\ r.ret[1] = r.tree.root[1].hash
    /\ Len(hs) >= 2 =>
          /\ DOMAIN r.tree.tree_cache = 0..CeilLog2(Len(hs))
          /\ Len(r.tree.tree_cache[0]) = Len(hs)
          /\ \A j \in 1..Len(hs) :
                r.tree.tree_cache[0][j] = MerkleNode(hs[j], None, None, Some(lv[j]))
          /\ \A k \in 1..CeilLog2(Len(hs)) :
                /\ Len(r.tree.tree_cache[k]) = (Len(r.tree.tree_cache[k - 1]) + 1) \div 2
                /\ \A j \in 1..Len(r.tree.tree_cache[k]) :
                      /\ r.tree.tree_cache[k][j].left =
                            Some(r.tree.tree_cache[k - 1][2 * j - 1])
                      /\ r.tree.tree_cache[k][j].right \in
                            {Some(r.tree.tree_cache[k - 1][2 * j - 1]),
                             Some(r.tree.tree_cache[k - 1][Min(2 * j, Len(r.tree.tree_cache[k - 1]))])}
          /\ r.tree.tree_cache[CeilLog2(Len(hs))] = <<r.tree.root[1]>>
          /\ \A k \in DOMAIN r.tree.tree_cache :
                \A j \in 1..Len(r.tree.tree_cache[k]) : NodeShape(r.tree.tree_cache[k][j])

C21_BuildLevels ==
    /\ \A t \in TreeIds : LevelsRule(LeafHashes(t), Leaves(t), build_tree(trees[t], heap))
    /\ last.op = "build_tree" =>
          /\ last.exc = ""
          /\ last.ret # None
          /\ Built(last.t)
          /\ Len(LeafHashes(last.t)) >= 2 =>
                /\ DictLen(trees[last.t].tree_cache) = CeilLog2(Len(LeafHashes(last.t))) + 1
                /\ trees[last.t].tree_cache = build_tree(trees[last.t], heap).tree.tree_cache

\* build_tree returned on five leaves: levels of 5, 3, 2 and 1 nodes, and the
\* unpaired third node of level 1 has the same node as both children
C21_Witness ==
    /\ last.op = "build_tree"
    /\ last.exc = ""
    /\ Len(LeafHashes(last.t)) = 5
    /\ DOMAIN trees[last.t].tree_cache = 0..3
    /\ Len(trees[last.t].tree_cache[1]) = 3
    /\ Len(trees[last.t].tree_cache[2]) = 2
    /\ trees[last.t].tree_cache[3] = <<trees[last.t].root[1]>>
    /\ trees[last.t].tree_cache[1][3].left = trees[last.t].tree_cache[1][3].right
    /\ trees[last.t].tree_cache[1][3].left # None

(***************************************************************************)
(* C22: after build_tree or get_root on a tree of exactly one leaf the     *)
(* level cache holds exactly one level, and that level holds exactly the   *)
(* single leaf node; after build_tree on a tree of no leaves the level     *)
(* cache is empty.                                                         *)
(***************************************************************************)
C22_SmallTreeCache ==
    last.op \in {"build_tree", "get_root"} =>
        /\ Len(LeafHashes(last.t)) = 1 =>
              /\ DOMAIN trees[last.t].tree_cache = {0}
              /\ trees[last.t].tree_cache[0] =
                    <<MerkleNode(LeafHashes(last.t)[1], None, None,
                                 Some(Leaves(last.t)[1]))>>
        /\ Len(LeafHashes(last.t)) = 0 => trees[last.t].tree_cache = EmptyDict

(***************************************************************************)
(* C23: get_tree_info() reports total_leaves = the leaf count and          *)
(* tree_height = the number of levels of the tree over the current leaf    *)
(* store (0 for no leaves, 1 for one leaf, ceil(log2(n)) + 1 for n >= 2),  *)
(* whether the tree was Dirty or Built when it was called; the tree_info   *)
(* embedded by serialize() reports the same values.                        *)
(***************************************************************************)
LevelCount(n) == IF n = 0 THEN 0 ELSE IF n = 1 THEN 1 ELSE CeilLog2(n) + 1

C23_InfoHeight ==
    /\ (last.op = "get_tree_info" /\ last.ret # None) =>
          /\ last.ret[1].total_leaves = Len(LeafHashes(last.t))
          /\ last.ret[1].tree_height = LevelCount(Len(LeafHashes(last.t)))
    /\ (last.op = "serialize" /\ last.ret # None) =>
          /\ last.ret[1].tree_info.total_leaves = Len(LeafHashes(last.t))
          /\ last.ret[1].tree_info.tree_height = LevelCount(Len(LeafHashes(last.t)))

(***************************************************************************)
(* The method MerkleTree.verify_evidence_inclusion(evidence).  An object   *)
(* is the record of the methods it has, each with the value it returns;    *)
(* a ComplianceEvidence has compute_hash and no get_hash.                  *)
(***************************************************************************)
MaxLeavesEvidence == 4

\* the attributes an instance of MerkleTree resolves
MerkleTreeAttrs ==
    {"leaves", "leaf_hashes", "root", "_tree_cache", "_hash_data", "add_leaf",
     "build_tree", "deserialize", "export_proofs", "get_proof", "get_proof_by_index",
     "get_root", "get_tree_info", "serialize", "verify_evidence_inclusion",
     "verify_proof"}

\* x in list
ListContains(seq, x) == \E j \in 1..Len(seq) : seq[j] = x

\* proof = self.generate_proof(leaf_index); return proof.verify()
evidence_proof_verify(tr, hp, leaf_index) ==
    IF "generate_proof" \notin MerkleTreeAttrs
    THEN [tree |-> tr, ret |-> None, exc |-> "AttributeError", built |-> FALSE]
    ELSE verify_checked(get_proof_by_index(tr, hp, leaf_index),
                        verify(get_proof_by_index(tr, hp, leaf_index).ret[1]))

tree_verify_evidence_inclusion(tr, hp, evidence) ==
    IF "get_hash" \notin DOMAIN evidence
    THEN [tree |-> tr, ret |-> None, exc |-> "AttributeError", built |-> FALSE]
    ELSE IF ~ListContains(hp[tr.leaf_hashes], evidence.get_hash)
    THEN [tree |-> tr, ret |-> Some(FALSE), exc |-> "", built |-> FALSE]
    ELSE evidence_proof_verify(tr, hp, ListIndex(hp[tr.leaf_hashes], evidence.get_hash))

\* objects with a get_hash method, and ComplianceEvidence objects
EvidenceObjects ==
    { [get_hash |-> H(d)] : d \in Data \cup {StrMissing} }
        \cup { [compute_hash |-> H(d)] : d \in Data }

EvidenceReturns(t, evidence, r) ==
    /\ trees' = [trees EXCEPT ![t] = r.tree]
    /\ last' = [op |-> "tree_verify_evidence_inclusion", t |-> t, data |-> None,
                index |-> None, proof |-> None, evidence |-> evidence,
                ret |-> r.ret, exc |-> r.exc, built |-> r.built]
    /\ UNCHANGED heap

TreeVerifyEvidenceInclusion(t) ==
    \E evidence \in EvidenceObjects :
        EvidenceReturns(t, evidence, tree_verify_evidence_inclusion(trees[t], heap, evidence))

NextEvidence ==
    \/ \E t \in TreeIds : AddLeaf(t, MaxLeavesEvidence)
    \/ \E t \in TreeIds : GetRoot(t)
    \/ \E t \in TreeIds : TreeVerifyEvidenceInclusion(t)

SpecEvidence == Init /\ [][NextEvidence]_vars

(***************************************************************************)
(* C24: the method verify_evidence_inclusion(evidence) of a tree returns a *)
(* boolean without raising: False when the hash of the evidence is not     *)
(* among the tree's leaf_hashes and True when it is.                       *)
(***************************************************************************)
C24_MethodReturnsBoolean ==
    (last.op = "tree_verify_evidence_inclusion" /\ "get_hash" \in DOMAIN last.evidence) =>
        /\ last.exc = ""
        /\ last.ret = Some(ListContains(LeafHashes(last.t), last.evidence.get_hash))

(***************************************************************************)
(* C25: every add_leaf changes the root: get_root() of a store s followed  *)
(* by d differs from get_root() of s for every s and every d, also when d  *)
(* equals the last leaf of s and len(s) is odd; so every proof issued      *)
(* before an add_leaf is rejected by verify_proof after it.                *)
(***************************************************************************)
C25_AddLeafChangesRoot ==
    [][last'.op = "add_leaf" =>
          /\ get_root(trees'[last'.t], heap').ret # get_root(trees[last'.t], heap).ret
          /\ \A i \in 0..(Len(LeafHashes(last'.t)) - 1) :
                verify_proof(trees'[last'.t], heap',
                             get_proof_by_index(trees[last'.t], heap, i).ret[1]).ret
                   = Some(FALSE)]_vars

(***************************************************************************)
(* verify_evidence_inclusion(raw_value, proof, tree.get_root()) with proof *)
(* dictionaries a caller assembles from what the tree publishes: an issued *)
(* proof cut off below any of its levels, and the root presented as a leaf *)
(* with no proof hashes.  The raw value is chosen freely and includes the  *)
(* values the presented leaf hashes are the hashes of.                     *)
(***************************************************************************)
MaxLeavesForged == 3

\* the hash the verification loop holds after k of the proof's entries
RECURSIVE Climb(_, _)
Climb(proof, k) ==
    IF k = 0
    THEN proof.leaf_hash
    ELSE sha256_hexdigest(IF proof.proof_directions[k] = "left"
                          THEN proof.proof_hashes[k] \o Climb(proof, k - 1)
                          ELSE Climb(proof, k - 1) \o proof.proof_hashes[k])

\* the proof without its first k entries, starting at the node reached there
Truncated(proof, k) ==
    MerkleProof(Climb(proof, k), proof.leaf_index \div Pow2(k),
                SubSeq(proof.proof_hashes, k + 1, Len(proof.proof_hashes)),
                SubSeq(proof.proof_directions, k + 1, Len(proof.proof_directions)),
                proof.root_hash)

AssembledDicts(t) ==
    { to_dict(Truncated(u[1], u[2])) :
        u \in { x \in CurrentProofs(t) \X (0..MaxLeavesForged) :
                  x[2] <= Len(x[1].proof_hashes) } }
        \cup { to_dict(MerkleProof(RefRoot(LeafHashes(t)), 0, <<>>, <<>>,
                                   RefRoot(LeafHashes(t)))) }

\* the string a digest was computed from
Preimage(digest) == digest[1].p

RawValues(t) ==
    Data \cup {StrMissing} \cup { Preimage(d.leaf_hash) : d \in AssembledDicts(t) }

\* the caller evaluates tree.get_root() for the third argument
InclusionAgainstRoot(t, raw_value, proof, r) ==
    /\ trees' = [trees EXCEPT ![t] = r.tree]
    /\ last' = [op |-> "verify_evidence_inclusion", t |-> t, data |-> Some(raw_value),
                index |-> None, proof |-> Some(proof), expected_root |-> r.ret[1],
                ret |-> verify_evidence_inclusion(raw_value, proof, r.ret[1]).ret,
                exc |-> verify_evidence_inclusion(raw_value, proof, r.ret[1]).exc,
                built |-> r.built]
    /\ UNCHANGED heap

VerifyAssembled(t) ==
    \E proof \in AssembledDicts(t) :
      \E raw_value \in RawValues(t) :
        InclusionAgainstRoot(t, raw_value, proof, get_root(trees[t], heap))

NextForged ==
    \/ \E t \in TreeIds : AddLeaf(t, MaxLeavesForged)
    \/ \E t \in TreeIds : GetRoot(t)
    \/ \E t \in TreeIds : VerifyAssembled(t)

SpecForged == Init /\ [][NextForged]_vars

(***************************************************************************)
(* C26: for any tree and any proof dictionary a caller supplies,           *)
(* verify_evidence_inclusion(raw_value, proof, tree.get_root()) returns    *)
(* True only if raw_value is one of the tree's leaves; a value that was    *)
(* never added, such as the concatenation of two sibling hashes or the     *)
(* empty string against the empty tree, is not accepted.                   *)
(***************************************************************************)
C26_InclusionSound ==
    (last.op = "verify_evidence_inclusion" /\ last.ret = Some(TRUE)) =>
        ListContains(Leaves(last.t), last.data[1])

(***************************************************************************)
(* C27: a tree returned by deserialize(t.serialize()) shares no mutable    *)
(* state with t: an add_leaf on either tree leaves the other tree's        *)
(* leaves, leaf_hashes and get_root() unchanged, and the other tree's      *)
(* cached root is still the root of its leaf hashes.                       *)
(***************************************************************************)
C27_NoSharedState ==
    [][last'.op = "add_leaf" =>
          \A u \in TreeIds \ {last'.t} :
              /\ heap'[trees'[u].leaves] = heap[trees[u].leaves]
              /\ heap'[trees'[u].leaf_hashes] = heap[trees[u].leaf_hashes]
              /\ get_root(trees'[u], heap').ret = get_root(trees[u], heap).ret
              /\ trees'[u].root # None =>
                    trees'[u].root[1].hash = RefRoot(heap'[trees'[u].leaf_hashes])]_vars

(***************************************************************************)
(* C28: the document serialize() returns is a snapshot: after a later      *)
(* add_leaf on the tree it still lists exactly the leaves and leaf_hashes  *)
(* the tree had when serialize() was called, so its root_hash and          *)
(* tree_info stay consistent with its own leaves.                          *)
(***************************************************************************)
C28_DocumentIsSnapshot ==
    [][(last.op = "serialize" /\ last.ret # None /\ last'.op = "add_leaf") =>
          /\ heap'[last.ret[1].leaves] = heap[last.ret[1].leaves]
          /\ heap'[last.ret[1].leaf_hashes] = heap[last.ret[1].leaf_hashes]
          /\ last.ret[1].root_hash = RefRoot(heap'[last.ret[1].leaf_hashes])
          /\ last.ret[1].tree_info.total_leaves = Len(heap'[last.ret[1].leaves])]_vars

(***************************************************************************)
(* deserialize of a document the caller built: any list of raw values for  *)
(* "leaves" and any list of digests for "leaf_hashes".  The document's two *)
(* lists are new objects; no list that exists is changed by building it.   *)
(* The caller keeps the tree deserialize returns as its second tree and    *)
(* drops the tree it held before; when deserialize raises, the caller      *)
(* still holds the earlier tree, unchanged.  Lists nothing refers to any   *)
(* more leave the heap, and the lists of the second tree are objects 3     *)
(* and 4.                                                                  *)
(***************************************************************************)
MaxDocLen == 2

\* the sequences over a set up to a length
SeqsUpTo(S, n) == UNION { [1..k -> S] : k \in 0..n }

\* the heap after the caller has built the document's two lists
WithDocument(hp, leaves, leaf_hashes) == hp \o <<leaves, leaf_hashes>>

\* the document {"leaves": leaves, "leaf_hashes": leaf_hashes} on that heap
DocumentOn(hp) == [leaves |-> Len(hp) + 1, leaf_hashes |-> Len(hp) + 2]

\* the caller's second tree is the returned one, or stays when the call raised
DocumentReturns(leaves, leaf_hashes, r) ==
    /\ trees' = IF r.ret = None THEN trees
                ELSE <<trees[1], [r.ret[1] EXCEPT !.leaves = 3, !.leaf_hashes = 4]>>
    /\ heap' = IF r.ret = None THEN heap
               ELSE <<heap[1], heap[2], r.heap[r.ret[1].leaves],
                      r.heap[r.ret[1].leaf_hashes]>>
    /\ last' = [op |-> "deserialize", t |-> IF r.ret = None THEN 0 ELSE 2, src |-> 0,
                data |-> None, index |-> None, proof |-> None,
                doc |-> [leaves |-> leaves, leaf_hashes |-> leaf_hashes],
                ret |-> IF r.ret = None THEN None ELSE Some(trees'[2]),
                exc |-> r.exc, built |-> r.built]

DeserializeDocument ==
    \E leaves \in SeqsUpTo(Data, MaxDocLen) :
      \E leaf_hashes \in SeqsUpTo({ hash_data(d) : d \in Data }, MaxDocLen) :
        DocumentReturns(leaves, leaf_hashes,
                        deserialize(WithDocument(heap, leaves, leaf_hashes),
                                    DocumentOn(heap)))

NextDoc ==
    \/ \E t \in TreeIds : AddLeaf(t, MaxDocLen)
    \/ \E t \in TreeIds : GetRoot(t)
    \/ DeserializeDocument

SpecDoc == Init /\ [][NextDoc]_vars

(***************************************************************************)
(* C29: in every tree, grown by add_leaf or returned by deserialize for    *)
(* any document that has both the leaves and the leaf_hashes key, leaves   *)
(* and leaf_hashes have the same length and leaf_hashes[i] = H(leaves[i])  *)
(* for every i; deserialize establishes this or raises.                    *)
(***************************************************************************)
C29_HashesMatchLeaves ==
    \A t \in TreeIds :
        /\ Len(Leaves(t)) = Len(LeafHashes(t))
        /\ \A i \in 1..Len(Leaves(t)) : LeafHashes(t)[i] = H(Leaves(t)[i])

(***************************************************************************)
(* The HTTP handlers of api/v1/transactions.py around the process-wide     *)
(* evidence_tree.  The handlers are coroutines of one event loop: a        *)
(* handler runs from one await to the next without interruption, and at an *)
(* await any other handler may run.  A frame records the handler, the      *)
(* evidence hash it will add, and pc, the number of the segment it runs    *)
(* next; segment k ends at the k-th await (counted from 0) or at return.   *)
(* The frames, the hashes added so far and the latest response are fields  *)
(* of last.  The database calls behind the awaits do not touch the tree.   *)
(***************************************************************************)
MaxLeavesHttp == 3

MaxInFlight == 2

Slots == 1..MaxInFlight

\* evidence_tree = MerkleTree()
evidence_tree == 1

HandlerKinds == {"submit_transaction", "review_transaction", "override_transaction_decision"}

\* the segment that holds the handler's evidence_tree.add_leaf call
AddSegment(kind) ==
    IF kind = "submit_transaction" THEN 2
    ELSE IF kind = "review_transaction" THEN 2
    ELSE 3

\* the segment that ends with the handler's return
LastSegment(kind) ==
    IF kind = "submit_transaction" THEN 3
    ELSE IF kind = "review_transaction" THEN 2
    ELSE 4

IdleFrame == [kind |-> "idle", pc |-> 0, evidence_hash |-> EmptyStr]

HttpInit ==
    /\ heap = <<<<>>, <<>>>>
    /\ trees = <<NewTree(1, 2)>>
    /\ last = [op |-> "init", t |-> evidence_tree, slots |-> [s \in Slots |-> IdleFrame],
               added |-> {}, request |-> None, response |-> None]

\* the handlers in flight that have not reached their add_leaf yet
PendingAdds ==
    Cardinality({ s \in Slots : /\ last.slots[s].kind # "idle"
                                /\ last.slots[s].pc <= AddSegment(last.slots[s].kind) })

\* a request arrives and its handler runs up to its first await
StartHandler(s) ==
    /\ last.slots[s] = IdleFrame
    /\ Len(Leaves(evidence_tree)) + PendingAdds < MaxLeavesHttp
    /\ \E kind \in HandlerKinds : \E d \in Data :
          last' = [last EXCEPT !.op = "start",
                               !.slots[s] = [kind |-> kind, pc |-> 1, evidence_hash |-> d],
                               !.request = None, !.response = None]
    /\ UNCHANGED <<heap, trees>>

\* the frame after its segment: the next segment, or gone after the return
Advance(f) ==
    IF f.pc = LastSegment(f.kind) THEN IdleFrame ELSE [f EXCEPT !.pc = f.pc + 1]

ResumeAdds(s, f, r) ==
    /\ trees' = [trees EXCEPT ![evidence_tree] = r.tree]
    /\ heap' = r.heap
    /\ last' = [last EXCEPT !.op = "add_leaf", !.slots[s] = Advance(f),
                            !.added = last.added \cup {f.evidence_hash},
                            !.request = None, !.response = None]

\* the awaited call returns and the handler runs its next segment
ResumeHandler(s) ==
    /\ last.slots[s].kind # "idle"
    /\ IF last.slots[s].pc = AddSegment(last.slots[s].kind)
       THEN ResumeAdds(s, last.slots[s],
                       add_leaf(trees[evidence_tree], heap, last.slots[s].evidence_hash))
       ELSE /\ last' = [last EXCEPT !.op = "resume", !.slots[s] = Advance(last.slots[s]),
                                    !.request = None, !.response = None]
            /\ UNCHANGED <<heap, trees>>

\* the awaited call fails or returns nothing: the handler raises at once
AbortHandler(s) ==
    /\ last.slots[s].kind # "idle"
    /\ last' = [last EXCEPT !.op = "abort", !.slots[s] = IdleFrame,
                            !.request = None, !.response = None]
    /\ UNCHANGED <<heap, trees>>

\* variant: another handler's add_leaf runs between get_proof and verify_proof
proof_body_interleaved(hp, r) ==
    [tree |-> r.tree, status |-> 200,
     body |-> Some([proof |-> to_dict(r.ret[1]),
                    verified |-> verify_proof(add_leaf(r.tree, hp, StrMissing).tree,
                                              add_leaf(r.tree, hp, StrMissing).heap,
                                              r.ret[1]).ret[1]])]

\* is_valid = evidence_tree.verify_proof(proof); response = proof.to_dict();
\* response["verified"] = is_valid
proof_body(hp, r) ==
    IF verify_proof(r.tree, hp, r.ret[1]).exc # ""
    THEN [tree |-> verify_proof(r.tree, hp, r.ret[1]).tree, status |-> 500, body |-> None]
    ELSE [tree |-> verify_proof(r.tree, hp, r.ret[1]).tree, status |-> 200,
          body |-> Some([proof |-> to_dict(r.ret[1]),
                         verified |-> verify_proof(r.tree, hp, r.ret[1]).ret[1]])]

\* proof = evidence_tree.get_proof(evidence_hash); if not proof: raise 404
proof_found(hp, r) ==
    IF r.exc # ""
    THEN [tree |-> r.tree, status |-> 500, body |-> None]
    ELSE IF r.ret = None
    THEN [tree |-> r.tree, status |-> 404, body |-> None]
    ELSE proof_body(hp, r)

get_merkle_proof(tr, hp, evidence_hash) == proof_found(hp, get_proof(tr, hp, evidence_hash))

Responds(op, request, r) ==
    /\ trees' = [trees EXCEPT ![evidence_tree] = r.tree]
    /\ last' = [last EXCEPT !.op = op, !.request = request,
                            !.response = Some([status |-> r.status, body |-> r.body])]
    /\ UNCHANGED heap

\* GET /merkle/proof/{evidence_hash}: the handler has no await
ProofRequest ==
    \E evidence_hash \in Data \cup {StrMissing} :
        Responds("get_merkle_proof", Some(evidence_hash),
                 get_merkle_proof(trees[evidence_tree], heap, evidence_hash))

\* root_hash = evidence_tree.get_root(); tree_info = evidence_tree.get_tree_info()
root_info(hp, r) ==
    IF r.exc # ""
    THEN [tree |-> r.tree, status |-> 500, body |-> None]
    ELSE [tree |-> get_tree_info(r.tree, hp).tree, status |-> 200,
          body |-> Some([root_hash |-> r.ret[1],
                         total_leaves |-> get_tree_info(r.tree, hp).ret[1].total_leaves,
                         tree_height |-> get_tree_info(r.tree, hp).ret[1].tree_height])]

get_merkle_root(tr, hp) == root_info(hp, get_root(tr, hp))

\* GET /merkle/root: the handler has no await
RootRequest ==
    Responds("get_merkle_root", None, get_merkle_root(trees[evidence_tree], heap))

NextHttp ==
    \/ \E s \in Slots : StartHandler(s)
    \/ \E s \in Slots : ResumeHandler(s)
    \/ \E s \in Slots : AbortHandler(s)
    \/ ProofRequest
    \/ RootRequest

SpecHttp == HttpInit /\ [][NextHttp]_vars

(***************************************************************************)
(* C30: under every interleaving, at the awaits, of submit, review and     *)
(* override handlers with proof requests on the shared evidence_tree,      *)
(* every successful response of GET /merkle/proof/{evidence_hash} carries  *)
(* verified = true and a root_hash equal to the root over the leaves       *)
(* present when the proof was generated, and a proof request is answered   *)
(* not-found only for an evidence hash that was never added.               *)
(***************************************************************************)
C30_ProofResponses ==
    last.op = "get_merkle_proof" =>
        /\ last.response # None
        /\ last.response[1].status \in {200, 404}
        /\ last.response[1].status = 200 =>
              /\ last.response[1].body[1].verified = TRUE
              /\ last.response[1].body[1].proof.root_hash =
                    RefRoot(LeafHashes(evidence_tree))
              /\ last.response[1].body[1].proof.leaf_hash = H(last.request[1])
              /\ last.request[1] \in last.added
        /\ last.response[1].status = 404 => last.request[1] \notin last.added

\* a proof request was answered with a verified proof over two leaves
\* while another handler, suspended at an await before its add_leaf, was in
\* flight
C30_Witness ==
    /\ last.op = "get_merkle_proof"
    /\ last.response[1].status = 200
    /\ last.response[1].body[1].verified = TRUE
    /\ Len(Leaves(evidence_tree)) = 2
    /\ Len(last.response[1].body[1].proof.proof_hashes) = 1
    /\ \E s \in Slots : /\ last.slots[s].kind = "submit_transaction"
                        /\ last.slots[s].pc = 2

====
